---------------------------- MODULE Spec2Model ----------------------------
(***************************************************************************)
(* Model of the UNT practice bot: the SQLite layer of database.py (users   *)
(* table, answers ledger, streak engine, statistics) and the conversation  *)
(* handlers of bot.py that call it.                                        *)
(*                                                                         *)
(* Dates are day numbers (datetime.date objects compare and subtract as    *)
(* integers of days); the TEXT column last_practice_date holds what        *)
(* strftime('%Y-%m-%d') wrote or whatever else a database file contains.   *)
(* Percentages are kept in tenths of a percent (667 is 66.7).              *)
(***************************************************************************)
EXTENDS Integers, Sequences, FiniteSets, TLC

VARIABLES
    today,          \* datetime.now().date() as a day number
    users,          \* users table: telegram_id -> row
    answers,        \* answers table in rowid order
    user_sessions,  \* bot.py's user_sessions dictionary: user id -> session
    conv,           \* ConversationHandler's state of each user's conversation
    QUESTIONS,      \* questions.py's cache: subject -> loaded data
    files,          \* the question source files on disk
    calls,          \* calls the last step made to the streak, ledger and
                    \* explanation functions, in order
    shown,          \* what the last step read for display
    result,         \* what the last read called directly returned
    tasks,          \* the handlers that were started for an update and the
                    \* statement each has reached, with its local variables
    streak_days     \* history kept by the runs over the calendar: the dates
                    \* at which update_streak was called for each user

botVars == <<user_sessions, conv, QUESTIONS, files, tasks>>
vars == <<today, users, answers, user_sessions, conv, QUESTIONS, files, calls, shown,
          result, tasks, streak_days>>

(***************************************************************************)
(* Bounds of the model.                                                    *)
(***************************************************************************)
MaxDay == 4
MaxAnswers == 3

UserIds == {1, 2}

(***************************************************************************)
(* TEXT values of the last_practice_date column.                           *)
(***************************************************************************)
NULL == [kind |-> "null", day |-> 0]
EmptyText == [kind |-> "empty", day |-> 0]
GarbageText == [kind |-> "garbage", day |-> 0]

\* today.strftime('%Y-%m-%d')
strftime(d) == [kind |-> "ymd", day |-> d]

\* a date written in another layout, e.g. '05/01/2024'
SlashText(d) == [kind |-> "dmy_slash", day |-> d]

\* datetime.strptime(s, '%Y-%m-%d').date(): ValueError unless s has that layout
strptime(s) ==
    IF s.kind = "ymd" THEN [ok |-> TRUE, date |-> s.day]
    ELSE [ok |-> FALSE, date |-> 0]

\* Python truthiness of the fetched column: None and '' are falsy
Truthy(s) == s.kind \notin {"null", "empty"}

(***************************************************************************)
(* users table                                                             *)
(***************************************************************************)
NoRow ==
    [present |-> FALSE, language |-> "en", current_streak |-> 0,
     best_streak |-> 0, last_practice_date |-> NULL]

\* the row INSERT creates: column defaults of CREATE TABLE users
DefaultRow ==
    [present |-> TRUE, language |-> "en", current_streak |-> 0,
     best_streak |-> 0, last_practice_date |-> NULL]

\* mutant of add_user: INSERT OR REPLACE
add_userReplaces(us, telegram_id) == [us EXCEPT ![telegram_id] = DefaultRow]

\* INSERT OR IGNORE INTO users
add_user(us, telegram_id) ==
    IF us[telegram_id].present THEN us
    ELSE [us EXCEPT ![telegram_id] = DefaultRow]

Max(a, b) == IF a >= b THEN a ELSE b

\* mutants of NewStreak
NewStreakNoIncrement(last_date, current_streak, now) ==
    IF last_date.none THEN 1
    ELSE IF last_date.date = now \/ last_date.date = now - 1
         THEN (IF current_streak # 0 THEN current_streak ELSE 1)
    ELSE 1

NewStreakSkipsSameDay(last_date, current_streak, now) ==
    IF last_date.none THEN 1
    ELSE IF last_date.date = now - 1 \/ last_date.date = now
         THEN (IF current_streak # 0 THEN current_streak ELSE 0) + 1
    ELSE 1

NewStreakNeverResets(last_date, current_streak, now) ==
    IF last_date.none THEN 1
    ELSE IF last_date.date = now
         THEN (IF current_streak # 0 THEN current_streak ELSE 1)
    ELSE (IF current_streak # 0 THEN current_streak ELSE 0) + 1

\* the if/elif chain of update_streak that computes new_streak
NewStreak(last_date, current_streak, now) ==
    IF last_date.none THEN 1
    ELSE IF last_date.date = now
         THEN (IF current_streak # 0 THEN current_streak ELSE 1)
    ELSE IF last_date.date = now - 1
         THEN (IF current_streak # 0 THEN current_streak ELSE 0) + 1
    ELSE 1

\* which arm of that chain runs
StreakBranch(last_date, now) ==
    IF last_date.none THEN "first"
    ELSE IF last_date.date = now THEN "same_day"
    ELSE IF last_date.date = now - 1 THEN "yesterday"
    ELSE "reset"

\* mutant of StreakRow: best_streak is not written
StreakRowBestKept(row, new_streak, now) ==
    [row EXCEPT !.current_streak = new_streak,
                !.last_practice_date = strftime(now)]

\* mutant of StreakRow: best_streak overwritten instead of MAX
StreakRowBestOverwritten(row, new_streak, now) ==
    [row EXCEPT !.current_streak = new_streak,
                !.last_practice_date = strftime(now),
                !.best_streak = new_streak]

\* UPDATE users SET current_streak, last_practice_date, best_streak = MAX(best_streak, ?)
StreakRow(row, new_streak, now) ==
    [row EXCEPT !.current_streak = new_streak,
                !.last_practice_date = strftime(now),
                !.best_streak = Max(row.best_streak, new_streak)]

\* mutant of update_streak: the UPDATE has no WHERE clause
update_streakEveryRow(us, telegram_id, now) ==
    LET row == us[telegram_id]
        last_date_str == row.last_practice_date
        parsed == strptime(last_date_str)
        last_date == IF Truthy(last_date_str)
                     THEN [none |-> FALSE, date |-> parsed.date]
                     ELSE [none |-> TRUE, date |-> 0]
        new_streak == NewStreak(last_date, row.current_streak, now)
    IN  IF ~row.present
        THEN [users |-> us, ret |-> 0, raised |-> FALSE, path |-> "no_user"]
        ELSE IF Truthy(last_date_str) /\ ~parsed.ok
        THEN [users |-> us, ret |-> 0, raised |-> TRUE, path |-> "ValueError"]
        ELSE [users |-> [v \in DOMAIN us |->
                            IF us[v].present THEN StreakRow(us[v], new_streak, now)
                            ELSE us[v]],
              ret |-> new_streak, raised |-> FALSE,
              path |-> StreakBranch(last_date, now)]

\* update_streak(telegram_id) at date now: the table afterwards, the value
\* returned, the path taken, and whether strptime raised (nothing is
\* written then: the exception leaves before the UPDATE)
update_streak(us, telegram_id, now) ==
    LET row == us[telegram_id]
        last_date_str == row.last_practice_date
        parsed == strptime(last_date_str)
        last_date == IF Truthy(last_date_str)
                     THEN [none |-> FALSE, date |-> parsed.date]
                     ELSE [none |-> TRUE, date |-> 0]
        new_streak == NewStreak(last_date, row.current_streak, now)
    IN  IF ~row.present
        THEN [users |-> us, ret |-> 0, raised |-> FALSE, path |-> "no_user"]
        ELSE IF Truthy(last_date_str) /\ ~parsed.ok
        THEN [users |-> us, ret |-> 0, raised |-> TRUE, path |-> "ValueError"]
        ELSE [users |-> [us EXCEPT ![telegram_id] = StreakRow(row, new_streak, now)],
              ret |-> new_streak, raised |-> FALSE,
              path |-> StreakBranch(last_date, now)]

(***************************************************************************)
(* answers table and the statistics read from it                           *)
(***************************************************************************)
\* mutant of save_answer: the submitted label is stored as the answer key
save_answerKeyFromUser(ans, telegram_id, subject, question_id, user_answer, correct_answer, is_correct) ==
    Append(ans, [telegram_id |-> telegram_id, subject |-> subject,
                 question_id |-> question_id, user_answer |-> user_answer,
                 correct_answer |-> user_answer, is_correct |-> is_correct])

\* mutant of save_answer: the user's latest event is replaced
save_answerReplaces(ans, telegram_id, subject, question_id, user_answer, correct_answer, is_correct) ==
    LET e == [telegram_id |-> telegram_id, subject |-> subject,
              question_id |-> question_id, user_answer |-> user_answer,
              correct_answer |-> correct_answer, is_correct |-> is_correct]
    IN  IF ans # <<>> /\ ans[Len(ans)].telegram_id = telegram_id
        THEN [ans EXCEPT ![Len(ans)] = e]
        ELSE Append(ans, e)

\* INSERT INTO answers (...) VALUES (?, ?, ?, ?, ?, ?)
save_answer(ans, telegram_id, subject, question_id, user_answer, correct_answer, is_correct) ==
    Append(ans, [telegram_id |-> telegram_id, subject |-> subject,
                 question_id |-> question_id, user_answer |-> user_answer,
                 correct_answer |-> correct_answer, is_correct |-> is_correct])

\* round((correct / total) * 100, 1) in tenths of a percent, total > 0.
\* Python rounds to the nearest tenth and an exact tie to the even digit; a
\* quotient is an exact tie only when total is a multiple of 16, and for
\* totals below 80 those quotients are exact binary fractions.
PyRound1(correct, total) ==
    LET n == correct * 1000
        q == n \div total
        r == n % total
    IN  IF 2 * r < total THEN q
        ELSE IF 2 * r > total THEN q + 1
        ELSE IF q % 2 = 0 THEN q ELSE q + 1

NoStats == [kind |-> "none", total |-> 0, correct |-> 0, percentage |-> 0]

\* mutants of get_user_stats
get_user_statsUnguarded(ans, telegram_id) ==
    LET rows == SelectSeq(ans, LAMBDA e : e.telegram_id = telegram_id)
        total == Len(rows)
        correct == Len(SelectSeq(rows, LAMBDA e : e.is_correct))
    IN  IF total = 0
        THEN [kind |-> "ZeroDivisionError", total |-> 0, correct |-> 0, percentage |-> 0]
        ELSE [kind |-> "stats", total |-> total, correct |-> correct,
              percentage |-> PyRound1(correct, total)]

get_user_statsTruncates(ans, telegram_id) ==
    LET rows == SelectSeq(ans, LAMBDA e : e.telegram_id = telegram_id)
        total == Len(rows)
        correct == Len(SelectSeq(rows, LAMBDA e : e.is_correct))
    IN  IF total > 0
        THEN [kind |-> "stats", total |-> total, correct |-> correct,
              percentage |-> (correct * 1000) \div total]
        ELSE NoStats

get_user_statsAllUsers(ans, telegram_id) ==
    LET total == Len(ans)
        correct == Len(SelectSeq(ans, LAMBDA e : e.is_correct))
    IN  IF total > 0
        THEN [kind |-> "stats", total |-> total, correct |-> correct,
              percentage |-> PyRound1(correct, total)]
        ELSE NoStats

\* get_user_stats(telegram_id): COUNT(*) and SUM(is_correct = 1) over the
\* user's rows; a dictionary only when total > 0, else None
get_user_stats(ans, telegram_id) ==
    LET rows == SelectSeq(ans, LAMBDA e : e.telegram_id = telegram_id)
        total == Len(rows)
        correct == Len(SelectSeq(rows, LAMBDA e : e.is_correct))
    IN  IF total > 0
        THEN [kind |-> "stats", total |-> total, correct |-> correct,
              percentage |-> PyRound1(correct, total)]
        ELSE NoStats

\* nothing read for display
NoShown == [user |-> 0, stats |-> NoStats, days |-> 0, best |-> 0]

\* mutant of get_subject_stats: the WHERE telegram_id = ? clause is dropped
get_subject_statsAllUsers(ans, telegram_id) ==
    LET subjects == {ans[i].subject : i \in DOMAIN ans}
        Row(subject) ==
            LET rows == SelectSeq(ans, LAMBDA e : e.subject = subject)
                total == Len(rows)
                correct == Len(SelectSeq(rows, LAMBDA e : e.is_correct))
            IN  [subject |-> subject, correct |-> correct, total |-> total,
                 percentage |-> IF total > 0 THEN PyRound1(correct, total) ELSE 0]
    IN  {Row(subject) : subject \in subjects}

\* get_subject_stats(telegram_id): one row per subject of the user's rows
\* (GROUP BY subject), made into a dictionary subject -> {correct, total,
\* percentage}; the dictionary is the set of its items
get_subject_stats(ans, telegram_id) ==
    LET mine == SelectSeq(ans, LAMBDA e : e.telegram_id = telegram_id)
        subjects == {mine[i].subject : i \in DOMAIN mine}
        Row(subject) ==
            LET rows == SelectSeq(mine, LAMBDA e : e.subject = subject)
                total == Len(rows)
                correct == Len(SelectSeq(rows, LAMBDA e : e.is_correct))
            IN  [subject |-> subject, correct |-> correct, total |-> total,
                 percentage |-> IF total > 0 THEN PyRound1(correct, total) ELSE 0]
    IN  {Row(subject) : subject \in subjects}

(***************************************************************************)
(* Leaderboard (database.py)                                               *)
(***************************************************************************)
\* ROUND(CAST(correct AS FLOAT) / total * 100, 1) in tenths of a percent:
\* SQLite rounds to the nearest tenth, an exact tie away from zero
SqlRound1(correct, total) == (2000 * correct + total) \div (2 * total)

\* mutant of Aggregates: LEFT JOIN, so a user without answers gives one row
AggregatesLeftJoin(us, ans) ==
    LET Row(u) ==
            LET mine == SelectSeq(ans, LAMBDA e : e.telegram_id = u)
                total == IF mine = <<>> THEN 1 ELSE Len(mine)
                correct == Len(SelectSeq(mine, LAMBDA e : e.is_correct))
            IN  [telegram_id |-> u, correct |-> correct, total |-> total,
                 accuracy |-> SqlRound1(correct, total),
                 current_streak |-> us[u].current_streak]
    IN  {Row(u) : u \in {v \in DOMAIN us : us[v].present}}

\* FROM users u INNER JOIN answers a ON u.telegram_id = a.telegram_id
\* GROUP BY u.telegram_id HAVING total > 0: one row per user that has a
\* users row and at least one answer
Aggregates(us, ans) ==
    LET Row(u) ==
            LET mine == SelectSeq(ans, LAMBDA e : e.telegram_id = u)
                total == Len(mine)
                correct == Len(SelectSeq(mine, LAMBDA e : e.is_correct))
            IN  [telegram_id |-> u, correct |-> correct, total |-> total,
                 accuracy |-> SqlRound1(correct, total),
                 current_streak |-> us[u].current_streak]
        joined == {u \in DOMAIN us :
                      us[u].present /\ \E i \in DOMAIN ans : ans[i].telegram_id = u}
    IN  {r \in {Row(u) : u \in joined} : r.total > 0}

\* ORDER BY accuracy DESC, correct DESC.  Rows equal in both keys leave
\* SQLite's sorter in the order the grouping produced them, ascending
\* telegram_id, with and without LIMIT.
OrderedBefore(a, b) ==
    \/ a.accuracy > b.accuracy
    \/ a.accuracy = b.accuracy /\ a.correct > b.correct
    \/ a.accuracy = b.accuracy /\ a.correct = b.correct /\ a.telegram_id < b.telegram_id

\* the rows of a query in its ORDER BY order
Ordered(rows) ==
    [i \in 1..Cardinality(rows) |->
        CHOOSE r \in rows : Cardinality({q \in rows : OrderedBefore(q, r)}) = i - 1]

\* mutant of get_leaderboard: the LIMIT is not applied
get_leaderboardNoLimit(us, ans, limit) ==
    LET results == Ordered(Aggregates(us, ans))
    IN  [i \in 1..Len(results) |->
            [name |-> results[i].telegram_id, correct |-> results[i].correct,
             total |-> results[i].total, accuracy |-> results[i].accuracy,
             streak |-> results[i].current_streak]]

\* get_leaderboard(limit), limit >= 0: the first `limit` rows, as
\* dictionaries.  'name' is the row's first_name, written as the id of the
\* user whose name it is.
get_leaderboard(us, ans, limit) ==
    LET ordered == Ordered(Aggregates(us, ans))
        results == SubSeq(ordered, 1, IF limit < Len(ordered) THEN limit ELSE Len(ordered))
    IN  [i \in 1..Len(results) |->
            [name |-> results[i].telegram_id, correct |-> results[i].correct,
             total |-> results[i].total, accuracy |-> results[i].accuracy,
             streak |-> results[i].current_streak]]

\* mutant of get_user_rank: users equal in both keys share a rank
get_user_rankShared(us, ans, telegram_id) ==
    LET rows == Aggregates(us, ans)
        Better(a, b) ==
            \/ a.accuracy > b.accuracy
            \/ a.accuracy = b.accuracy /\ a.correct > b.correct
    IN  IF \E r \in rows : r.telegram_id = telegram_id
        THEN LET mine == CHOOSE r \in rows : r.telegram_id = telegram_id
             IN  1 + Cardinality({q \in rows : Better(q, mine)})
        ELSE 0

\* get_user_rank(telegram_id): the 1-based index of the user's row in the
\* whole ordered result, 0 standing for None
get_user_rank(us, ans, telegram_id) ==
    LET results == Ordered(Aggregates(us, ans))
        found == {i \in DOMAIN results : results[i].telegram_id = telegram_id}
    IN  IF found = {} THEN 0 ELSE CHOOSE i \in found : \A j \in found : i <= j

(***************************************************************************)
(* Question store (questions.py)                                           *)
(***************************************************************************)
Languages == {"en", "ru", "kk"}

\* the option labels of a question, and of check_answer's test
Labels == {"A", "B", "C", "D", "E"}

\* keys of SUBJECT_FILES
SUBJECT_FILES == {"mathematics", "physics", "chemistry", "biology", "history", "geography"}

\* every value a subject argument takes: the store's names, the codes the
\* bot selects, and Python's None
SubjectNames == SUBJECT_FILES \cup {"math", "reading", "None"}

\* a text of a question record: which field of which record, in which
\* language (for an option: under which label)
Text(field, subject, id, lang) == <<field, subject, id, lang>>
AbsentText == <<"absent">>
\* the '' default of question.get('question_en', '')
BlankText == <<"">>

\* a complete record of a source file
Record(subject, id, topic, correct) ==
    [id |-> id, topic |-> topic, correct |-> correct,
     question |-> [l \in Languages |-> Text("question", subject, id, l)],
     options |-> [l \in Labels |-> Text("option", subject, id, l)],
     explanation |-> [l \in Languages |-> Text("explanation", subject, id, l)]]

\* the source files as deployed: physics and history hold questions
Parsed(subject) ==
    CASE subject = "physics" ->
            [questions |-> <<Record("physics", 1, "mechanics", "A"),
                             Record("physics", 2, "optics", "B")>>,
             topics |-> <<"mechanics", "optics">>]
      [] subject = "history" ->
            [questions |-> <<Record("history", 1, "ancient", "B")>>,
             topics |-> <<"ancient">>]
      [] OTHER -> [questions |-> <<>>, topics |-> <<>>]

\* question['id'] and question['topic'] of a record without that key
AbsentId == 0
AbsentKey == "<no key>"

\* records without some of their texts: the first has no Kazakh question
\* and explanation, the second no English and Kazakh question and no
\* option E
Sparse(subject) ==
    <<[Record(subject, 1, "mechanics", "A")
          EXCEPT !.question["kk"] = AbsentText, !.explanation["kk"] = AbsentText],
      [Record(subject, 2, "optics", "B")
          EXCEPT !.question["en"] = AbsentText, !.question["kk"] = AbsentText,
                 !.options["E"] = AbsentText]>>

\* records without a key get_question subscripts: the first has no
\* 'topic', the second no 'id'
Keyless(subject) ==
    <<[Record(subject, 1, "mechanics", "A") EXCEPT !.topic = AbsentKey],
      [Record(subject, 2, "optics", "B") EXCEPT !.id = AbsentId]>>

\* the records of Parsed(subject) after an edit of the file: the answer
\* key of the first record is another label
Corrected(subject) ==
    [i \in DOMAIN Parsed(subject).questions |->
        IF i = 1 THEN [Parsed(subject).questions[i] EXCEPT !.correct = "C"]
        ELSE Parsed(subject).questions[i]]

\* a text that differs from `text` in letter case and surrounding blanks
\* only
Recased(text) == Append(text, "recased")

\* the records of Parsed(subject) with an option repeated: option B of the
\* first record is the text of its option A in another letter case
Duplicated(subject) ==
    [i \in DOMAIN Parsed(subject).questions |->
        IF i = 1
        THEN [Parsed(subject).questions[i] EXCEPT
                 !.options["B"] = Recased(Parsed(subject).questions[i].options["A"])]
        ELSE Parsed(subject).questions[i]]

\* state of a source file: absent; not parseable as JSON; or a JSON
\* document: the complete records of Parsed(subject), the same records
\* with a corrected answer key, an object whose records lack texts, an
\* object whose records lack keys, an object with an empty 'questions'
\* list, a non-empty array instead of an object
FileStates ==
    {"missing", "malformed", "json", "corrected", "sparse", "keyless", "empty", "array"}

\* values of a QUESTIONS entry: key not in the dictionary, None, or the
\* document json.load returned, named by its kind
CacheStates ==
    {"not_cached", "None", "json", "corrected", "sparse", "keyless", "empty", "array"}

\* the document json.load returns for a file of that kind
Content(subject, kind) ==
    CASE kind = "json" ->
            [shape |-> "object", questions |-> Parsed(subject).questions,
             topics |-> Parsed(subject).topics]
      [] kind = "corrected" ->
            [shape |-> "object", questions |-> Corrected(subject),
             topics |-> Parsed(subject).topics]
      [] kind = "sparse" ->
            [shape |-> "object", questions |-> Sparse(subject),
             topics |-> <<"mechanics", "optics">>]
      [] kind = "keyless" ->
            [shape |-> "object", questions |-> Keyless(subject),
             topics |-> <<"mechanics", "optics">>]
      [] kind = "empty" -> [shape |-> "object", questions |-> <<>>, topics |-> <<>>]
      [] kind = "array" -> [shape |-> "array", questions |-> <<>>, topics |-> <<>>]
      [] OTHER -> [shape |-> "None", questions |-> <<>>, topics |-> <<>>]

\* load_questions_from_file(subject): the document, or None for an unknown
\* subject, a missing file, or any exception while reading
load_questions_from_file(fs, subject) ==
    IF subject \notin SUBJECT_FILES THEN "None"
    ELSE IF fs[subject] \in {"missing", "malformed"} THEN "None"
    ELSE fs[subject]

\* mutant of Loads: a subject cached as None is loaded again
LoadsAfterNone(cache, subject) == cache[subject] \in {"not_cached", "None"}

\* 'if subject not in QUESTIONS': the call reads the source file
Loads(cache, subject) == cache[subject] = "not_cached"

\* 'if subject not in QUESTIONS: QUESTIONS[subject] = load_questions_from_file(subject)'
EnsureLoaded(cache, fs, subject) ==
    IF Loads(cache, subject)
    THEN [cache EXCEPT ![subject] = load_questions_from_file(fs, subject)]
    ELSE cache

\* get_topics(subject): the cache afterwards, the list returned, and the
\* exception raised when the document is not an object
get_topics(cache, fs, subject) ==
    LET c == EnsureLoaded(cache, fs, subject)
        data == Content(subject, c[subject])
    IN  [QUESTIONS |-> c,
         topics |-> IF c[subject] = "None" THEN <<>> ELSE data.topics,
         raised |-> IF data.shape = "array" THEN "AttributeError" ELSE ""]

\* mutant of Candidates: the topic filter is not applied
CandidatesUnfiltered(cache, fs, subject, topic) ==
    LET c == EnsureLoaded(cache, fs, subject)
    IN  IF c[subject] = "None" THEN <<>> ELSE Content(subject, c[subject]).questions

\* the list random.choice draws from in get_question: empty when it returns None
Candidates(cache, fs, subject, topic) ==
    LET c == EnsureLoaded(cache, fs, subject)
        questions == IF c[subject] = "None" THEN <<>>
                     ELSE Content(subject, c[subject]).questions
    IN  IF topic \notin {"None", ""}
        THEN SelectSeq(questions, LAMBDA q : q.topic = topic)
        ELSE questions

NoQuestion ==
    [present |-> FALSE, id |-> 0, topic |-> "", text |-> AbsentText,
     options |-> [l \in Labels |-> AbsentText], correct |-> "",
     explanation |-> AbsentText]

\* mutant of Localized: no English variant is looked up
LocalizedNoFallback(variants, language) ==
    IF language \in Languages /\ variants[language] # AbsentText THEN variants[language]
    ELSE BlankText

\* question.get(f'<field>_{language}', question.get('<field>_en', ''))
Localized(variants, language) ==
    IF language \in Languages /\ variants[language] # AbsentText THEN variants[language]
    ELSE IF variants["en"] # AbsentText THEN variants["en"]
    ELSE BlankText

\* the dictionary get_question builds from the chosen record
Rendered(q, language) ==
    [present |-> TRUE, id |-> q.id, topic |-> q.topic,
     text |-> Localized(q.question, language),
     options |-> q.options,
     correct |-> q.correct,
     explanation |-> Localized(q.explanation, language)]

\* mutant of get_question: the question returned last is not drawn again
get_questionNoRepeat(cache, fs, subject, language, topic, pick) ==
    LET c == EnsureLoaded(cache, fs, subject)
        cands == SelectSeq(Candidates(cache, fs, subject, topic),
                           LAMBDA q : ~(/\ result.op = "get_question"
                                        /\ result.subject = subject
                                        /\ result.question.present
                                        /\ result.question.id = q.id))
        question == cands[((pick - 1) % Len(cands)) + 1]
        raised == IF Content(subject, c[subject]).shape = "array" THEN "AttributeError"
                  ELSE IF cands = <<>> THEN ""
                  ELSE IF question.id = AbsentId \/ question.topic = AbsentKey
                  THEN "KeyError"
                  ELSE ""
    IN  [QUESTIONS |-> c,
         question |-> IF cands = <<>> \/ raised # "" THEN NoQuestion
                      ELSE Rendered(question, language),
         raised |-> raised]

\* get_question(subject, language, topic) when random.choice takes the
\* pick-th candidate: the cache afterwards and the question (or None)
get_question(cache, fs, subject, language, topic, pick) ==
    LET c == EnsureLoaded(cache, fs, subject)
        cands == Candidates(cache, fs, subject, topic)
        question == cands[((pick - 1) % Len(cands)) + 1]
        raised == IF Content(subject, c[subject]).shape = "array" THEN "AttributeError"
                  ELSE IF cands = <<>> THEN ""
                  ELSE IF question.id = AbsentId \/ question.topic = AbsentKey
                  THEN "KeyError"
                  ELSE ""
    IN  [QUESTIONS |-> c,
         question |-> IF cands = <<>> \/ raised # "" THEN NoQuestion
                      ELSE Rendered(question, language),
         raised |-> raised]

\* the indices random.choice can draw: as many as the largest file has records
Picks == 1..Len(Parsed("physics").questions)

\* one entry of the call log: the function, the user it was called for, and
\* the path it took
Call(fn, u, path) == [fn |-> fn, user |-> u, path |-> path]

\* what the last read of the database or of the question store returned:
\* the function called and its argument, the value by its type, and the
\* exception when one left the function
NoResult ==
    [op |-> "none", user |-> 0, subject |-> "", language |-> "", topic |-> "",
     limit |-> 0, by_subject |-> {},
     board |-> <<>>, rank |-> 0, question |-> NoQuestion, topics |-> <<>>,
     raised |-> ""]

(***************************************************************************)
(* Sessions and conversations (bot.py)                                     *)
(***************************************************************************)
\* user_id not in user_sessions
NoSession ==
    [present |-> FALSE, language |-> "Absent", subject |-> "Absent", topic |-> "None",
     selecting_topic |-> FALSE, current_question |-> NoQuestion]

\* user_sessions[user_id] = {}: no key set. A missing 'topic' reads as None
\* and a missing 'selecting_topic' as false wherever the code reads them.
EmptySession == [NoSession EXCEPT !.present = TRUE]

\* the source files of the deployment: physics and history are there, the
\* other files are not
DeployedFiles ==
    [f \in SUBJECT_FILES |-> IF f \in {"physics", "history"} THEN "json" ELSE "missing"]

\* the handlers that can be in progress at one time
TaskIds == {1, 2}

\* no handler: fn is the handler, pc the statement it has reached, and the
\* other fields are its local variables (today, the fetched row, the loaded
\* data, the cache entry it read, the total it displayed)
NoTask ==
    [fn |-> "none", user |-> 0, pc |-> "done", today |-> 0, found |-> FALSE,
     last_date_str |-> NULL, current_streak |-> 0, arrived |-> NoRow,
     data |-> "not_cached", seen |-> "not_cached", explanation |-> "", total |-> 0]

InitBot ==
    /\ user_sessions = [u \in UserIds |-> NoSession]
    /\ conv = [u \in UserIds |-> "END"]
    /\ QUESTIONS = [sub \in SubjectNames |-> "not_cached"]
    /\ files = DeployedFiles
    /\ tasks = [t \in TaskIds |-> NoTask]
    /\ streak_days = [u \in UserIds |-> {}]

\* UPDATE users SET language = ? WHERE telegram_id = ?
set_user_language(us, telegram_id, language) ==
    IF us[telegram_id].present
    THEN [us EXCEPT ![telegram_id].language = language]
    ELSE us

(***************************************************************************)
(* Message texts.  The button captions come from translations.py; a        *)
(* caption stands for its three language versions, which the handlers      *)
(* treat alike.                                                            *)
(***************************************************************************)
LanguageTexts == {"lang:kk", "lang:ru", "lang:en"}
SubjectTexts ==
    {"subject:math", "subject:reading", "subject:history", "subject:physics",
     "subject:chemistry"}
LongText == "a question of more than 100 characters"

\* lang_map.get(text, 'en')
lang_map(text) ==
    CASE text = "lang:kk" -> "kk"
      [] text = "lang:ru" -> "ru"
      [] OTHER -> "en"

\* subject_map.get(text)
subject_map(text) ==
    CASE text = "subject:math" -> "math"
      [] text = "subject:reading" -> "reading"
      [] text = "subject:history" -> "history"
      [] text = "subject:physics" -> "physics"
      [] text = "subject:chemistry" -> "chemistry"
      [] OTHER -> "None"

\* mutant of Normalized: the text is stripped but not upper-cased
NormalizedNoUpper(text) ==
    CASE text = " A " -> "A"
      [] OTHER -> text

\* str(text).upper().strip() of an option text
UpperStrip(text) == IF Len(text) = 5 THEN SubSeq(text, 1, 4) ELSE text

\* explain_answer(question_text, correct_answer, user_answer, language):
\* the prompt it builds, chosen by comparing the two texts it is given
explain_answer(correct_answer, user_answer) ==
    IF UpperStrip(user_answer) = UpperStrip(correct_answer) THEN "praise" ELSE "explain"

\* update.message.text.upper().strip()
Normalized(text) ==
    CASE text = "a" -> "A"
      [] text = "b" -> "B"
      [] text = " A " -> "A"
      [] text = "f" -> "F"
      [] text = "hello" -> "HELLO"
      [] OTHER -> text

\* text.replace('\U0001F4D6', '').strip().lower().replace(' ', '_')
TopicOf(text) ==
    CASE text = "topic:Mechanics" -> "mechanics"
      [] text = "topic:Optics" -> "optics"
      [] text = "topic:Ancient" -> "ancient"
      [] text = "A" -> "a"
      [] text = "B" -> "b"
      [] text = " A " -> "a"
      [] text = "F" -> "f"
      [] OTHER -> text

(***************************************************************************)
(* Handlers.  A handler takes the state w it runs on and the update `in`   *)
(* (user, text, the index random.choice draws, whether the explanation     *)
(* service answers) and gives the state it leaves, with the conversation   *)
(* state it returns in ret ("raise" when an exception leaves the handler). *)
(***************************************************************************)
Log(w, fn, u, path) == [w EXCEPT !.calls = Append(@, Call(fn, u, path))]
Out(w, ret) == [w EXCEPT !.ret = ret]

LanguageOf(sess) == IF sess.language = "Absent" THEN "en" ELSE sess.language
SubjectOr(sess, default) == IF sess.subject = "Absent" THEN default ELSE sess.subject

\* call_ai: the placeholder text when the service fails
call_ai(ai_ok) == IF ai_ok THEN "ok" ELSE "unavailable"

\* mutant of start: the users row is not written
startWithoutRow(w, in) == Out(w, "CHOOSING_LANGUAGE")

\* start: add_user(user.id, ...), the language keyboard, CHOOSING_LANGUAGE
start(w, in) ==
    Out([w EXCEPT !.users = add_user(@, in.user)], "CHOOSING_LANGUAGE")

language_chosen(w, in) ==
    LET u == in.user
        language == lang_map(in.text)
        sess == IF w.user_sessions[u].present THEN w.user_sessions[u] ELSE EmptySession
        w1 == [w EXCEPT !.user_sessions[u] = [sess EXCEPT !.language = language],
                        !.users = set_user_language(@, u, language)]
    IN  Out(w1, "CHOOSING_SUBJECT")

subject_chosen(w, in) ==
    LET u == in.user
        subject == subject_map(in.text)
    IN  IF subject = "None" THEN Out(w, "CHOOSING_SUBJECT")
        ELSE IF ~w.user_sessions[u].present THEN Out(w, "raise")
        ELSE Out([w EXCEPT !.user_sessions[u].subject = subject], "WAITING_ANSWER")

change_subject(w, in) ==
    LET u == in.user
    IN  IF w.user_sessions[u].present
        THEN Out([w EXCEPT !.user_sessions[u].subject = "None",
                           !.user_sessions[u].topic = "None",
                           !.user_sessions[u].selecting_topic = FALSE],
                 "CHOOSING_SUBJECT")
        ELSE Out(w, "CHOOSING_SUBJECT")

show_main_menu(w, in) ==
    LET u == in.user
        subject == w.user_sessions[u].subject
    IN  IF subject \in {"Absent", "None"} THEN change_subject(w, in)
        ELSE Out([w EXCEPT !.user_sessions[u].selecting_topic = FALSE,
                           !.user_sessions[u].topic = "None"],
                 "WAITING_ANSWER")

\* 'question = get_question(...)' and what start_practice and topic_chosen
\* do with it
PresentQuestion(w, in, subject, topic) ==
    LET u == in.user
        r == get_question(w.QUESTIONS, files, subject, LanguageOf(w.user_sessions[u]),
                          topic, in.pick)
        w1 == [w EXCEPT !.QUESTIONS = r.QUESTIONS]
    IN  IF r.raised # "" THEN Out(w1, "raise")
        ELSE IF ~r.question.present THEN Out(w1, "WAITING_ANSWER")
        ELSE IF ~w.user_sessions[u].present THEN Out(w1, "raise")
        ELSE Out([w1 EXCEPT !.user_sessions[u].current_question = r.question],
                 "WAITING_ANSWER")

start_practice(w, in) ==
    LET sess == w.user_sessions[in.user]
    IN  PresentQuestion(w, in, SubjectOr(sess, "math"), sess.topic)

topic_chosen(w, in) ==
    LET u == in.user
        sess == w.user_sessions[u]
        topic == TopicOf(in.text)
    IN  IF in.text = "btn_menu" THEN show_main_menu(w, in)
        ELSE IF in.text = "btn_practice"
        THEN start_practice([w EXCEPT !.user_sessions[u].topic = "None",
                                      !.user_sessions[u].selecting_topic = FALSE], in)
        ELSE PresentQuestion([w EXCEPT !.user_sessions[u].topic = topic,
                                       !.user_sessions[u].selecting_topic = FALSE],
                             in, SubjectOr(sess, "math"), topic)

show_topics(w, in) ==
    LET u == in.user
        sess == w.user_sessions[u]
        r == get_topics(w.QUESTIONS, files, SubjectOr(sess, "math"))
        w1 == [w EXCEPT !.QUESTIONS = r.QUESTIONS]
    IN  IF r.raised # "" THEN Out(w1, "raise")
        ELSE IF r.topics = <<>> THEN start_practice(w1, in)
        ELSE IF ~sess.present THEN Out(w1, "raise")
        ELSE Out([w1 EXCEPT !.user_sessions[u].selecting_topic = TRUE],
                 "WAITING_ANSWER")

\* answer_question for a text of more than 100 characters, else explain_topic:
\* either returns call_ai's text
handle_free_text(w, in) == Out(w, "WAITING_ANSWER")

\* get_user_streak(telegram_id)
get_user_streak(us, telegram_id) ==
    IF us[telegram_id].present
    THEN [current |-> us[telegram_id].current_streak, best |-> us[telegram_id].best_streak]
    ELSE [current |-> 0, best |-> 0]

\* what check_answer puts into its reply: the statistics, and the streak
\* line when new_streak > 1
Reply(u, stats, new_streak, streak_info) ==
    [user |-> u, stats |-> stats,
     days |-> IF new_streak > 1 THEN new_streak ELSE 0,
     best |-> IF new_streak > 1 THEN streak_info.best ELSE 0]

\* mutant of check_answer: the statistics are read before the answer is saved
check_answerStatsFirst(w, in) ==
    LET u == in.user
        user_answer == Normalized(in.text)
        st == update_streak(w.users, u, today)
        w1 == Log([w EXCEPT !.users = st.users], "update_streak", u, st.path)
        sess == w.user_sessions[u]
        question == sess.current_question
        is_correct == (user_answer = question.correct)
        stats == get_user_stats(w1.answers, u)
        w2 == Log(w1, "get_user_stats", u, "ok")
        w3 == Log([w2 EXCEPT !.answers =
                      save_answer(@, u, SubjectOr(sess, "math"), question.id,
                                  user_answer, question.correct, is_correct)],
                  "save_answer", u, "ok")
        w4 == Log(w3, "explain_answer", u, call_ai(in.ai_ok))
        w5 == IF st.ret > 1 THEN Log(w4, "get_user_streak", u, "ok") ELSE w4
    IN  IF st.raised THEN Out(w1, "raise")
        ELSE IF user_answer \notin Labels THEN handle_free_text(w1, in)
        ELSE IF ~question.present THEN Out(w1, "WAITING_ANSWER")
        ELSE Out([w5 EXCEPT !.shown =
                      Reply(u, stats, st.ret, get_user_streak(w5.users, u))],
                 "WAITING_ANSWER")

\* mutant of check_answer: a failure of the explanation service leaves
\* explain_answer as an exception
check_answerServiceRaises(w, in) ==
    LET u == in.user
        user_answer == Normalized(in.text)
        st == update_streak(w.users, u, today)
        w1 == Log([w EXCEPT !.users = st.users], "update_streak", u, st.path)
        sess == w.user_sessions[u]
        question == sess.current_question
        is_correct == (user_answer = question.correct)
        w2 == Log([w1 EXCEPT !.answers =
                      save_answer(@, u, SubjectOr(sess, "math"), question.id,
                                  user_answer, question.correct, is_correct)],
                  "save_answer", u, "ok")
        w3 == Log(w2, "explain_answer", u, IF in.ai_ok THEN "ok" ELSE "raise")
        stats == get_user_stats(w3.answers, u)
        w4 == Log(w3, "get_user_stats", u, "ok")
        w5 == IF st.ret > 1 THEN Log(w4, "get_user_streak", u, "ok") ELSE w4
    IN  IF st.raised THEN Out(w1, "raise")
        ELSE IF user_answer \notin Labels THEN handle_free_text(w1, in)
        ELSE IF ~question.present THEN Out(w1, "WAITING_ANSWER")
        ELSE IF ~in.ai_ok THEN Out(w3, "raise")
        ELSE Out([w5 EXCEPT !.shown =
                      Reply(u, stats, st.ret, get_user_streak(w5.users, u))],
                 "WAITING_ANSWER")

check_answer(w, in) ==
    LET u == in.user
        user_answer == Normalized(in.text)
        st == update_streak(w.users, u, today)
        w1 == Log([w EXCEPT !.users = st.users], "update_streak", u, st.path)
        sess == w.user_sessions[u]
        question == sess.current_question
        is_correct == (user_answer = question.correct)
        w2 == Log([w1 EXCEPT !.answers =
                      save_answer(@, u, SubjectOr(sess, "math"), question.id,
                                  user_answer, question.correct, is_correct)],
                  "save_answer", u, "ok")
        w3 == Log(w2, "explain_answer", u, call_ai(in.ai_ok))
        stats == get_user_stats(w3.answers, u)
        w4 == Log(w3, "get_user_stats", u, "ok")
        w5 == IF st.ret > 1 THEN Log(w4, "get_user_streak", u, "ok") ELSE w4
    IN  IF st.raised THEN Out(w1, "raise")
        ELSE IF user_answer \notin Labels THEN handle_free_text(w1, in)
        ELSE IF ~question.present THEN Out(w1, "WAITING_ANSWER")
        ELSE Out([w5 EXCEPT !.shown =
                      Reply(u, stats, st.ret, get_user_streak(w5.users, u))],
                 "WAITING_ANSWER")

ask_for_topic(w, in) == Out(w, "ASKING_QUESTION")

ask_for_question(w, in) == Out(w, "ASKING_QUESTION")

show_progress(w, in) ==
    LET stats == get_user_stats(w.answers, in.user)
    IN  Out([Log(w, "get_user_stats", in.user, "ok")
                EXCEPT !.shown = [NoShown EXCEPT !.user = in.user, !.stats = stats]],
            "WAITING_ANSWER")

\* get_leaderboard(10) and get_user_rank are read and shown
show_leaderboard(w, in) ==
    Out(w, "WAITING_ANSWER")

handle_menu_choice(w, in) ==
    IF w.user_sessions[in.user].selecting_topic THEN topic_chosen(w, in)
    ELSE CASE in.text = "btn_practice" -> start_practice(w, in)
           [] in.text = "btn_explain" -> ask_for_topic(w, in)
           [] in.text = "btn_ask" -> ask_for_question(w, in)
           [] in.text = "btn_progress" -> show_progress(w, in)
           [] in.text = "btn_leaderboard" -> show_leaderboard(w, in)
           [] in.text = "btn_topics" -> show_topics(w, in)
           [] in.text = "btn_change_subject" -> change_subject(w, in)
           [] in.text = "btn_menu" -> show_main_menu(w, in)
           [] in.text = "btn_next" -> start_practice(w, in)
           [] OTHER -> check_answer(w, in)

(***************************************************************************)
(* Streak engine driven directly: the database functions called in any     *)
(* order on a fresh database, under a clock that moves forward.            *)
(***************************************************************************)
InitStreak ==
    /\ today = 0
    /\ users = [u \in UserIds |-> NoRow]
    /\ answers = <<>>
    /\ calls = <<>>
    /\ shown = NoShown
    /\ result = NoResult
    /\ InitBot

DbAddUser(u) ==
    /\ users' = add_user(users, u)
    /\ calls' = <<>>
    /\ UNCHANGED <<today, answers, shown, result, botVars, streak_days>>

DbUpdateStreak(u) ==
    LET r == update_streak(users, u, today)
    IN  /\ users' = r.users
        /\ calls' = <<Call("update_streak", u, r.path)>>
        /\ UNCHANGED <<today, answers, shown, result, botVars, streak_days>>

\* midnight passes
Tick ==
    /\ today < MaxDay
    /\ today' = today + 1
    /\ calls' = <<>>
    /\ UNCHANGED <<users, answers, shown, result, botVars, streak_days>>

NextStreak ==
    \/ \E u \in UserIds : DbAddUser(u)
    \/ \E u \in UserIds : DbUpdateStreak(u)
    \/ Tick

SpecStreak == InitStreak /\ [][NextStreak]_vars

(***************************************************************************)
(* The streak engine with its history: the same calls, and the dates at    *)
(* which update_streak ran for each user are kept.                         *)
(***************************************************************************)
DatedUpdateStreak(u) ==
    LET r == update_streak(users, u, today)
    IN  /\ users' = r.users
        /\ calls' = <<Call("update_streak", u, r.path)>>
        /\ streak_days' = [streak_days EXCEPT ![u] = @ \cup {today}]
        /\ UNCHANGED <<today, answers, shown, result, botVars>>

NextCalendar ==
    \/ \E u \in UserIds : DbAddUser(u)
    \/ \E u \in UserIds : DatedUpdateStreak(u)
    \/ Tick

SpecCalendar == InitStreak /\ [][NextCalendar]_vars

(***************************************************************************)
(* The same functions on a database file that already exists when the      *)
(* process starts (init_db is CREATE TABLE IF NOT EXISTS): the rows are     *)
(* whatever the schema admits, last_practice_date being an unconstrained   *)
(* TEXT column.                                                            *)
(***************************************************************************)
ExistingMaxStreak == 2

ExistingDates ==
    {NULL, EmptyText, GarbageText, SlashText(-1)}
        \cup {strftime(d) : d \in -2..0}

ExistingRows ==
    {NoRow} \cup
    [present : {TRUE}, language : {"en"},
     current_streak : 0..ExistingMaxStreak, best_streak : 0..ExistingMaxStreak,
     last_practice_date : ExistingDates]

InitExistingDb ==
    /\ today = 0
    /\ users \in [UserIds -> ExistingRows]
    /\ answers = <<>>
    /\ calls = <<>>
    /\ shown = NoShown
    /\ result = NoResult
    /\ InitBot

SpecExistingDb == InitExistingDb /\ [][NextStreak]_vars

(***************************************************************************)
(* Progress ledger driven directly: users are added, answers are saved     *)
(* with whatever the caller passes, statistics are read.                   *)
(***************************************************************************)
LedgerSubjects == {"physics", "history"}
LedgerLabels == {"A", "B"}

DbSaveAnswer(u, subject, question_id, user_answer, correct_answer, is_correct) ==
    /\ Len(answers) < MaxAnswers
    /\ answers' = save_answer(answers, u, subject, question_id, user_answer,
                              correct_answer, is_correct)
    /\ calls' = <<Call("save_answer", u, "ok")>>
    /\ shown' = NoShown
    /\ result' = NoResult
    /\ UNCHANGED <<today, users, botVars, streak_days>>

DbGetUserStats(u) ==
    /\ calls' = <<Call("get_user_stats", u, "ok")>>
    /\ shown' = [NoShown EXCEPT !.user = u, !.stats = get_user_stats(answers, u)]
    /\ result' = NoResult
    /\ UNCHANGED <<today, users, answers, botVars, streak_days>>

DbLedgerAddUser(u) ==
    /\ users' = add_user(users, u)
    /\ calls' = <<>>
    /\ shown' = NoShown
    /\ result' = NoResult
    /\ UNCHANGED <<today, answers, botVars, streak_days>>

DbGetSubjectStats(u) ==
    /\ calls' = <<Call("get_subject_stats", u, "ok")>>
    /\ shown' = NoShown
    /\ result' = [NoResult EXCEPT !.op = "get_subject_stats", !.user = u,
                                  !.by_subject = get_subject_stats(answers, u)]
    /\ UNCHANGED <<today, users, answers, botVars, streak_days>>

NextLedger ==
    \/ \E u \in UserIds : DbLedgerAddUser(u)
    \/ \E u \in UserIds, subject \in LedgerSubjects, user_answer \in LedgerLabels :
            DbSaveAnswer(u, subject, 1, user_answer, "A", user_answer = "A")
    \/ \E u \in UserIds : DbGetUserStats(u)
    \/ \E u \in UserIds : DbGetSubjectStats(u)

SpecLedger == InitStreak /\ [][NextLedger]_vars

(***************************************************************************)
(* Leaderboard driven directly: users are added, answers are saved, the    *)
(* leaderboard and the ranks are read.                                     *)
(***************************************************************************)
RankerUsers == {1, 2, 3}

\* limits asked for; show_leaderboard asks for 10
Limits == {0, 1, 2, 3, 10}

InitRanker ==
    /\ today = 0
    /\ users = [u \in RankerUsers |-> NoRow]
    /\ answers = <<>>
    /\ calls = <<>>
    /\ shown = NoShown
    /\ result = NoResult
    /\ InitBot

DbGetLeaderboard(limit) ==
    /\ calls' = <<Call("get_leaderboard", 0, "ok")>>
    /\ shown' = NoShown
    /\ result' = [NoResult EXCEPT !.op = "get_leaderboard", !.limit = limit,
                                  !.board = get_leaderboard(users, answers, limit)]
    /\ UNCHANGED <<today, users, answers, botVars, streak_days>>

DbGetUserRank(u) ==
    /\ calls' = <<Call("get_user_rank", u, "ok")>>
    /\ shown' = NoShown
    /\ result' = [NoResult EXCEPT !.op = "get_user_rank", !.user = u,
                                  !.rank = get_user_rank(users, answers, u)]
    /\ UNCHANGED <<today, users, answers, botVars, streak_days>>

NextRanker ==
    \/ \E u \in RankerUsers : DbLedgerAddUser(u)
    \/ \E u \in RankerUsers, user_answer \in LedgerLabels :
            DbSaveAnswer(u, "physics", 1, user_answer, "A", user_answer = "A")
    \/ \E limit \in Limits : DbGetLeaderboard(limit)
    \/ \E u \in RankerUsers : DbGetUserRank(u)

SpecRanker == InitRanker /\ [][NextRanker]_vars

(***************************************************************************)
(* Question store driven directly: questions and topics are asked for in   *)
(* any order while the source files are replaced or removed on disk.       *)
(***************************************************************************)
\* subjects asked for: two with a source file and the bot's default, which
\* has none
StoreSubjects == {"physics", "history", "math"}

\* the questions asked for, as <<subject, language, topic>>: of physics in
\* English and Kazakh without a topic (None or the empty string), with a
\* topic of the file and with a topic of no file; of history in Russian;
\* of the default subject
StoreRequests ==
    ({"physics"} \X {"en", "kk"} \X {"None", "", "mechanics", "astronomy"})
        \cup ({"history"} \X {"ru"} \X {"None", "ancient"})
        \cup {<<"math", "en", "None">>}

\* what a source file can become
StoreKinds(subject) ==
    IF subject = "physics" THEN FileStates \ {"corrected"}
    ELSE {"missing", "malformed", "json"}

\* the source file read by the call, if it read one
LoadLog(cache, subject) ==
    IF Loads(cache, subject)
    THEN <<Call("load_questions_from_file", 0, subject)>>
    ELSE <<>>

StoreGetQuestion(subject, language, topic, pick) ==
    LET r == get_question(QUESTIONS, files, subject, language, topic, pick)
    IN  /\ pick <= Len(Candidates(QUESTIONS, files, subject, topic)) \/ pick = 1
        /\ QUESTIONS' = r.QUESTIONS
        /\ calls' = LoadLog(QUESTIONS, subject)
        /\ result' = [NoResult EXCEPT !.op = "get_question", !.subject = subject,
                                      !.language = language, !.topic = topic,
                                      !.question = r.question, !.raised = r.raised]
        /\ UNCHANGED <<today, users, answers, user_sessions, conv, files, shown, tasks, streak_days>>

StoreGetTopics(subject) ==
    LET r == get_topics(QUESTIONS, files, subject)
    IN  /\ QUESTIONS' = r.QUESTIONS
        /\ calls' = LoadLog(QUESTIONS, subject)
        /\ result' = [NoResult EXCEPT !.op = "get_topics", !.subject = subject,
                                      !.topics = IF r.raised = "" THEN r.topics ELSE <<>>,
                                      !.raised = r.raised]
        /\ UNCHANGED <<today, users, answers, user_sessions, conv, files, shown, tasks, streak_days>>

\* a source file is written, replaced or removed
FileChange(subject, kind) ==
    /\ files[subject] # kind
    /\ files' = [files EXCEPT ![subject] = kind]
    /\ calls' = <<>>
    /\ result' = NoResult
    /\ UNCHANGED <<today, users, answers, user_sessions, conv, QUESTIONS, shown, tasks, streak_days>>

NextStore ==
    \/ \E request \in StoreRequests, pick \in Picks :
            StoreGetQuestion(request[1], request[2], request[3], pick)
    \/ \E subject \in StoreSubjects : StoreGetTopics(subject)
    \/ \E subject \in StoreSubjects \cap SUBJECT_FILES :
          \E kind \in StoreKinds(subject) : FileChange(subject, kind)

SpecStore == InitStreak /\ [][NextStore]_vars

(***************************************************************************)
(* The bot: updates arrive one at a time and ConversationHandler hands     *)
(* each to the handler registered for the user's conversation state; a     *)
(* handler runs to its end before the next update is taken.                *)
(***************************************************************************)
FlowMaxDay == 1
FlowMaxAnswers == 2

FlowUsers == {1}

\* the texts the users send, by the state of the conversation
LanguageReplies == {"lang:ru"}
SubjectReplies == {"subject:physics", "subject:math"}
MenuReplies ==
    {"btn_practice", "btn_explain", "btn_progress", "btn_leaderboard", "btn_topics",
     "btn_change_subject", "btn_menu", "topic:Mechanics", "A", "a", "F"}
FreeTexts == {"hello", LongText}

\* While a topic selection is pending every text but the menu and practice
\* captions is taken as a topic name, whichever text it is: a topic button,
\* a menu button and a label are sent.
TopicReplies == {"topic:Mechanics", "btn_practice", "btn_menu", "btn_progress", "A"}

\* texts for which the handler draws a question
DrawingTexts == {"btn_practice", "btn_topics", "topic:Mechanics", "btn_progress", "A"}
\* texts that may reach explain_answer
GradedTexts == {"A", "a"}

\* the state a handler starts on
World ==
    [users |-> users, answers |-> answers, user_sessions |-> user_sessions,
     QUESTIONS |-> QUESTIONS, calls |-> <<>>, shown |-> NoShown, ret |-> "raise"]

Update(u, text, pick, ai_ok) == [user |-> u, text |-> text, pick |-> pick, ai_ok |-> ai_ok]

\* the state a handler leaves; an exception leaves the conversation state as it was
Handled(u, r) ==
    /\ Len(r.answers) <= FlowMaxAnswers
    /\ users' = r.users
    /\ answers' = r.answers
    /\ user_sessions' = r.user_sessions
    /\ QUESTIONS' = r.QUESTIONS
    /\ calls' = r.calls
    /\ shown' = r.shown
    /\ conv' = [conv EXCEPT ![u] = IF r.ret = "raise" THEN @ ELSE r.ret]
    /\ UNCHANGED <<today, files, result, tasks, streak_days>>

\* CommandHandler('start', start): entry point and fallback
OnStart(u) ==
    /\ u \in FlowUsers
    /\ Handled(u, start(World, Update(u, "/start", 1, TRUE)))

OnLanguageChosen(u, text) ==
    /\ conv[u] = "CHOOSING_LANGUAGE"
    /\ Handled(u, language_chosen(World, Update(u, text, 1, TRUE)))

OnSubjectChosen(u, text) ==
    /\ conv[u] = "CHOOSING_SUBJECT"
    /\ Handled(u, subject_chosen(World, Update(u, text, 1, TRUE)))

OnMenuChoice(u, text, pick, ai_ok) ==
    /\ conv[u] = "WAITING_ANSWER"
    /\ user_sessions[u].selecting_topic => text \in TopicReplies
    /\ pick = 1 \/ text \in DrawingTexts
    /\ ai_ok \/ text \in GradedTexts
    /\ Handled(u, handle_menu_choice(World, Update(u, text, pick, ai_ok)))

OnFreeText(u, text, ai_ok) ==
    /\ conv[u] = "ASKING_QUESTION"
    /\ Handled(u, handle_free_text(World, Update(u, text, 1, ai_ok)))

FlowTick ==
    /\ today < FlowMaxDay
    /\ today' = today + 1
    /\ calls' = <<>>
    /\ shown' = NoShown
    /\ UNCHANGED <<users, answers, botVars, result, streak_days>>

Init == InitStreak

Next ==
    \/ \E u \in FlowUsers : OnStart(u)
    \/ \E u \in FlowUsers, text \in LanguageReplies : OnLanguageChosen(u, text)
    \/ \E u \in FlowUsers, text \in SubjectReplies : OnSubjectChosen(u, text)
    \/ \E u \in FlowUsers, text \in MenuReplies, pick \in Picks, ai_ok \in BOOLEAN :
            OnMenuChoice(u, text, pick, ai_ok)
    \/ \E u \in FlowUsers, text \in FreeTexts : OnFreeText(u, text, TRUE)
    \/ FlowTick

Spec == Init /\ [][Next]_vars

(***************************************************************************)
(* The bot over restarts of its process.  The database and the source      *)
(* files stay; user_sessions, QUESTIONS and the conversations are module   *)
(* state of the process and start empty.  One user practises physics       *)
(* while the answer key in the source file is edited.                      *)
(***************************************************************************)
GradeTexts == {"btn_practice", "A", "B"}

\* what the physics file is edited to
GradeKinds == {"json", "corrected"}

\* the process ends and main() runs again
Restart ==
    /\ user_sessions' = [u \in UserIds |-> NoSession]
    /\ conv' = [u \in UserIds |-> "END"]
    /\ QUESTIONS' = [sub \in SubjectNames |-> "not_cached"]
    /\ calls' = <<>>
    /\ shown' = NoShown
    /\ UNCHANGED <<today, users, answers, files, result, tasks, streak_days>>

NextGrade ==
    \/ \E u \in FlowUsers : OnStart(u)
    \/ \E u \in FlowUsers : OnLanguageChosen(u, "lang:ru")
    \/ \E u \in FlowUsers : OnSubjectChosen(u, "subject:physics")
    \/ \E u \in FlowUsers, text \in GradeTexts, pick \in Picks :
            OnMenuChoice(u, text, pick, TRUE)
    \/ \E kind \in GradeKinds : FileChange("physics", kind)
    \/ Restart

SpecGrade == Init /\ [][NextGrade]_vars

(***************************************************************************)
(* Two users in the same process, each in a conversation of their own.     *)
(***************************************************************************)
PairLanguages == {"lang:ru", "lang:kk"}
PairTexts == {"btn_practice", "A", "btn_progress"}

\* /start of either user
PairStart(u) ==
    /\ u \in UserIds
    /\ Handled(u, start(World, Update(u, "/start", 1, TRUE)))

NextPair ==
    \/ \E u \in UserIds : PairStart(u)
    \/ \E u \in UserIds, text \in PairLanguages : OnLanguageChosen(u, text)
    \/ \E u \in UserIds : OnSubjectChosen(u, "subject:physics")
    \/ \E u \in UserIds, text \in PairTexts : OnMenuChoice(u, text, 1, TRUE)

SpecPair == Init /\ [][NextPair]_vars

(***************************************************************************)
(* Answers to a question on screen.  Each user has chosen physics and has  *)
(* been served a question of the physics file, which holds the records of  *)
(* Parsed or the records with the repeated option; the users answer with   *)
(* the labels A and B.                                                     *)
(***************************************************************************)
\* the questions get_question can have served
ServedQuestions ==
    {Rendered(questions[i], "ru") :
        questions \in {Parsed("physics").questions, Duplicated("physics")},
        i \in DOMAIN Parsed("physics").questions}

InitOptions ==
    /\ today = 0
    /\ users = [u \in UserIds |-> [DefaultRow EXCEPT !.language = "ru"]]
    /\ answers = <<>>
    /\ calls = <<>>
    /\ shown = NoShown
    /\ result = NoResult
    /\ user_sessions \in
          [UserIds -> {[EmptySession EXCEPT !.language = "ru", !.subject = "physics",
                                            !.current_question = question] :
                          question \in ServedQuestions}]
    /\ conv = [u \in UserIds |-> "WAITING_ANSWER"]
    /\ QUESTIONS = [sub \in SubjectNames |-> "not_cached"]
    /\ files = DeployedFiles
    /\ tasks = [t \in TaskIds |-> NoTask]
    /\ streak_days = [u \in UserIds |-> {}]

NextOptions ==
    \E u \in UserIds, text \in {"A", "B"} : OnMenuChoice(u, text, 1, TRUE)

SpecOptions == InitOptions /\ [][NextOptions]_vars

(***************************************************************************)
(* The handlers statement by statement.  main() builds one Application and *)
(* run_polling runs it on one event loop in one thread.  A handler is a    *)
(* coroutine, and the database, question-store and explanation functions   *)
(* it calls are ordinary functions: the thread leaves a handler only at an *)
(* await, and the first await of check_answer and of start_practice is the *)
(* reply_text that follows all their reads and writes.  Two updates have   *)
(* arrived; midnight can pass and a source file can change at any time.    *)
(***************************************************************************)
LoopMaxStreak == 2

\* the rows the bot has written for a user who practised on the last days
LoopRows ==
    {DefaultRow} \cup
    {[present |-> TRUE, language |-> "en", current_streak |-> sb[1],
      best_streak |-> sb[2], last_practice_date |-> strftime(d)] :
        sb \in {p \in (1..LoopMaxStreak) \X (1..LoopMaxStreak) : p[1] <= p[2]},
        d \in -2..0}

\* the subject the two users have chosen
LoopSubjects == {"physics", "history"}

\* what the history file can become while the handlers run
LoopKinds == {"json", "missing"}

\* the handlers the two updates are for: a label, and the practice button
LoopHandlers == {"check_answer", "start_practice"}

\* the label the user sends
LoopAnswer == "A"

\* the update has arrived and its handler has not started
Queued(fn, u, row) ==
    [NoTask EXCEPT !.fn = fn, !.user = u, !.pc = "queued", !.arrived = row]

\* the session of a user who chose English and a subject and was shown the
\* first physics question
LoopSession(subject) ==
    [EmptySession EXCEPT !.language = "en", !.subject = subject,
                         !.current_question =
                            Rendered(Parsed("physics").questions[1], "en")]

InitLoop ==
    /\ today = 0
    /\ \E row \in LoopRows : users = [u \in UserIds |-> row]
    /\ answers = <<>>
    /\ calls = <<>>
    /\ shown = NoShown
    /\ result = NoResult
    /\ \E subject \in LoopSubjects :
            user_sessions = [u \in UserIds |-> LoopSession(subject)]
    /\ conv = [u \in UserIds |-> "WAITING_ANSWER"]
    /\ QUESTIONS = [sub \in SubjectNames |-> IF sub = "physics" THEN "json"
                                             ELSE "not_cached"]
    /\ files = DeployedFiles
    /\ \E fn \in [TaskIds -> LoopHandlers], u \in [TaskIds -> UserIds] :
            tasks = [t \in TaskIds |-> Queued(fn[t], u[t], users[u[t]])]
    /\ streak_days = [u \in UserIds |-> {}]

\* the handler is between its first statement and its first await
InProgress(task) == task.pc \notin {"queued", "done", "raised"}

\* mutant of MayRun: the thread switches between handlers at any statement
MayRunInterleaved(ts, t) == TRUE

\* the thread can execute the next statement of handler t: no other handler
\* has been entered and not yet reached its await
MayRun(ts, t) == \A o \in TaskIds \ {t} : ~InProgress(ts[o])

\* the handler t is at statement pc of fn and the thread executes it
At(t, fn, pc) ==
    /\ tasks[t].fn = fn
    /\ tasks[t].pc = pc
    /\ MayRun(tasks, t)

\* update_streak: today = datetime.now().date(); SELECT ...; fetchone()
SelectStreak(t) ==
    LET row == users[tasks[t].user]
    IN  /\ At(t, "check_answer", "queued")
        /\ tasks' = [tasks EXCEPT ![t] =
                        [@ EXCEPT !.pc = IF row.present THEN "selected" ELSE "updated",
                                  !.today = today,
                                  !.found = row.present,
                                  !.last_date_str = row.last_practice_date,
                                  !.current_streak = row.current_streak]]
        /\ UNCHANGED <<today, users, answers, user_sessions, conv, QUESTIONS, files,
                       calls, shown, result, streak_days>>

\* update_streak: the if/elif chain on the fetched values, UPDATE, commit
UpdateStreak(t) ==
    LET task == tasks[t]
        parsed == strptime(task.last_date_str)
        last_date == IF Truthy(task.last_date_str)
                     THEN [none |-> FALSE, date |-> parsed.date]
                     ELSE [none |-> TRUE, date |-> 0]
        new_streak == NewStreak(last_date, task.current_streak, task.today)
    IN  /\ At(t, "check_answer", "selected")
        /\ IF Truthy(task.last_date_str) /\ ~parsed.ok
           THEN /\ tasks' = [tasks EXCEPT ![t].pc = "raised"]
                /\ UNCHANGED users
           ELSE /\ tasks' = [tasks EXCEPT ![t].pc = "updated"]
                /\ users' = [users EXCEPT ![task.user] =
                                StreakRow(@, new_streak, task.today)]
        /\ UNCHANGED <<today, answers, user_sessions, conv, QUESTIONS, files,
                       calls, shown, result, streak_days>>

\* check_answer: the label is graded against the session's question and
\* save_answer inserts the event
InsertAnswer(t) ==
    LET u == tasks[t].user
        sess == user_sessions[u]
        question == sess.current_question
    IN  /\ At(t, "check_answer", "updated")
        /\ answers' = save_answer(answers, u, SubjectOr(sess, "math"), question.id,
                                  LoopAnswer, question.correct,
                                  LoopAnswer = question.correct)
        /\ tasks' = [tasks EXCEPT ![t].pc = "saved"]
        /\ UNCHANGED <<today, users, user_sessions, conv, QUESTIONS, files,
                       calls, shown, result, streak_days>>

\* explain_answer -> call_ai: model.generate_content(prompt) is called
CallService(t) ==
    /\ At(t, "check_answer", "saved")
    /\ tasks' = [tasks EXCEPT ![t].pc = "explaining"]
    /\ UNCHANGED <<today, users, answers, user_sessions, conv, QUESTIONS, files,
                   calls, shown, result, streak_days>>

\* generate_content returns or raises, and call_ai returns its text
ServiceReturns(t, ai_ok) ==
    /\ At(t, "check_answer", "explaining")
    /\ tasks' = [tasks EXCEPT ![t].pc = "explained", ![t].explanation = call_ai(ai_ok)]
    /\ UNCHANGED <<today, users, answers, user_sessions, conv, QUESTIONS, files,
                   calls, shown, result, streak_days>>

\* get_user_stats, and the reply is awaited
ReadStats(t) ==
    /\ At(t, "check_answer", "explained")
    /\ tasks' = [tasks EXCEPT ![t].pc = "done",
                              ![t].total = get_user_stats(answers, tasks[t].user).total]
    /\ UNCHANGED <<today, users, answers, user_sessions, conv, QUESTIONS, files,
                   calls, shown, result, streak_days>>

\* the subject start_practice passes to get_question
TaskSubject(t) == SubjectOr(user_sessions[tasks[t].user], "math")

\* get_question: 'if subject not in QUESTIONS'
TestCache(t) ==
    /\ At(t, "start_practice", "queued")
    /\ tasks' = [tasks EXCEPT ![t].pc = IF Loads(QUESTIONS, TaskSubject(t))
                                        THEN "loading" ELSE "cached"]
    /\ UNCHANGED <<today, users, answers, user_sessions, conv, QUESTIONS, files,
                   calls, shown, result, streak_days>>

\* get_question: load_questions_from_file(subject) is evaluated
ReadFile(t) ==
    /\ At(t, "start_practice", "loading")
    /\ tasks' = [tasks EXCEPT ![t].pc = "loaded",
                              ![t].data = load_questions_from_file(files, TaskSubject(t))]
    /\ UNCHANGED <<today, users, answers, user_sessions, conv, QUESTIONS, files,
                   calls, shown, result, streak_days>>

\* get_question: 'QUESTIONS[subject] = ' what was loaded
StoreCache(t) ==
    /\ At(t, "start_practice", "loaded")
    /\ QUESTIONS' = [QUESTIONS EXCEPT ![TaskSubject(t)] = tasks[t].data]
    /\ tasks' = [tasks EXCEPT ![t].pc = "cached"]
    /\ UNCHANGED <<today, users, answers, user_sessions, conv, files,
                   calls, shown, result, streak_days>>

\* get_question reads QUESTIONS[subject] and draws; start_practice stores
\* the question in the session, and the reply is awaited
ReadCache(t, pick) ==
    LET u == tasks[t].user
        sess == user_sessions[u]
        r == get_question(QUESTIONS, files, TaskSubject(t), LanguageOf(sess),
                          sess.topic, pick)
    IN  /\ At(t, "start_practice", "cached")
        /\ pick <= Len(Candidates(QUESTIONS, files, TaskSubject(t), sess.topic))
              \/ pick = 1
        /\ tasks' = [tasks EXCEPT ![t].pc = "done",
                                  ![t].seen = QUESTIONS[TaskSubject(t)]]
        /\ user_sessions' =
              IF r.raised = "" /\ r.question.present
              THEN [user_sessions EXCEPT ![u].current_question = r.question]
              ELSE user_sessions
        /\ UNCHANGED <<today, users, answers, conv, QUESTIONS, files,
                       calls, shown, result, streak_days>>

NextLoop ==
    \/ \E t \in TaskIds : SelectStreak(t)
    \/ \E t \in TaskIds : UpdateStreak(t)
    \/ \E t \in TaskIds : InsertAnswer(t)
    \/ \E t \in TaskIds : CallService(t)
    \/ \E t \in TaskIds, ai_ok \in BOOLEAN : ServiceReturns(t, ai_ok)
    \/ \E t \in TaskIds : ReadStats(t)
    \/ \E t \in TaskIds : TestCache(t)
    \/ \E t \in TaskIds : ReadFile(t)
    \/ \E t \in TaskIds : StoreCache(t)
    \/ \E t \in TaskIds, pick \in Picks : ReadCache(t, pick)
    \/ \E kind \in LoopKinds : FileChange("history", kind)
    \/ FlowTick

SpecLoop == InitLoop /\ [][NextLoop]_vars

(***************************************************************************)
(* Claims about the streak engine.                                         *)
(***************************************************************************)
\* the step is one update_streak call for u
StreakCallFor(u) ==
    /\ Len(calls') = 1
    /\ calls'[1].fn = "update_streak"
    /\ calls'[1].user = u

JustUpdated(u, path) == calls = <<Call("update_streak", u, path)>>

\* C1: an update_streak call for an existing user whose last practice date
\* is the day before today sets the current streak to the previous one plus 1.
C1_YesterdayIncrements ==
    [][\A u \in UserIds :
        (/\ StreakCallFor(u)
         /\ users[u].present
         /\ users[u].last_practice_date = strftime(today - 1))
        => users'[u].current_streak = users[u].current_streak + 1]_vars

\* a streak of 4 has become 5
C1_Witness ==
    \E u \in UserIds :
        /\ JustUpdated(u, "yesterday")
        /\ users[u].current_streak = 5

\* C2: an update_streak call for an existing user whose last practice date
\* is today leaves the current streak as it was, and it is at least 1.
C2_SameDayUnchanged ==
    [][\A u \in UserIds :
        (/\ StreakCallFor(u)
         /\ users[u].present
         /\ users[u].last_practice_date = strftime(today))
        => /\ users'[u].current_streak = users[u].current_streak
           /\ users'[u].current_streak >= 1]_vars

\* a repeated call on the day a streak of 2 was reached
C2_Witness ==
    \E u \in UserIds :
        /\ JustUpdated(u, "same_day")
        /\ users[u].current_streak = 2

\* C3: an update_streak call for an existing user whose last practice date
\* is two or more days before today sets the current streak to 1.
C3_GapResets ==
    [][\A u \in UserIds :
        (/\ StreakCallFor(u)
         /\ users[u].present
         /\ users[u].last_practice_date.kind = "ymd"
         /\ users[u].last_practice_date.day <= today - 2)
        => users'[u].current_streak = 1]_vars

\* a streak of at least 3 was reset to 1
C3_Witness ==
    \E u \in UserIds :
        /\ JustUpdated(u, "reset")
        /\ users[u].current_streak = 1
        /\ users[u].best_streak >= 3

\* the stored text is not a date that strptime('%Y-%m-%d') parses
Malformed(s) == s.kind \notin {"null", "ymd"}

\* C4: an update_streak call for an existing user whose stored last practice
\* date is malformed completes normally and sets the current streak to 1.
C4_MalformedResets ==
    [][\A u \in UserIds :
        (/\ StreakCallFor(u)
         /\ users[u].present
         /\ Malformed(users[u].last_practice_date))
        => /\ calls'[1].path # "ValueError"
           /\ users'[u].current_streak = 1]_vars

\* C5: after an update_streak call on an existing user the stored best
\* streak is the larger of the previous best and the new current streak, and
\* the stored last practice date is today.
C5_BestAndDate ==
    [][\A u \in UserIds :
        (StreakCallFor(u) /\ users[u].present)
        => /\ users'[u].best_streak
                = (IF users[u].best_streak >= users'[u].current_streak
                   THEN users[u].best_streak ELSE users'[u].current_streak)
           /\ users'[u].last_practice_date = strftime(today)]_vars

\* the previous best was kept over a smaller new streak
C5_Witness ==
    \E u \in UserIds :
        /\ JustUpdated(u, "reset")
        /\ users[u].best_streak > users[u].current_streak
        /\ users[u].last_practice_date = strftime(today)

(***************************************************************************)
(* Claims about the progress ledger.                                       *)
(***************************************************************************)
EventsOf(u) == {i \in DOMAIN answers : answers[i].telegram_id = u}
CorrectEventsOf(u) == {i \in EventsOf(u) : answers[i].is_correct}

\* p tenths of a percent is a nearest one-decimal value of correct/total*100
NearestTenth(p, correct, total) ==
    /\ 2 * (p * total - 1000 * correct) <= total
    /\ 2 * (1000 * correct - p * total) <= total

\* C9: get_user_stats returns none for a user with no events, and otherwise
\* total > 0, 0 <= correct <= total and the percentage is correct/total*100
\* rounded to one decimal; it never divides by zero.
C9_StatsShape ==
    \A u \in UserIds :
        LET st == get_user_stats(answers, u)
        IN  /\ st.kind # "ZeroDivisionError"
            /\ (EventsOf(u) = {}) <=> (st.kind = "none")
            /\ st.kind = "stats" =>
                /\ st.total > 0
                /\ 0 <= st.correct /\ st.correct <= st.total
                /\ NearestTenth(st.percentage, st.correct, st.total)
            /\ (shown.user = u /\ Len(calls) = 1 /\ calls[1].fn = "get_user_stats")
                => shown.stats = st

\* 3 answered with 2 correct was read as 66.7
C9_Witness ==
    \E u \in UserIds :
        /\ calls = <<Call("get_user_stats", u, "ok")>>
        /\ shown.user = u
        /\ shown.stats = [kind |-> "stats", total |-> 3, correct |-> 2, percentage |-> 667]

\* C10: the total of get_user_stats is the number of the user's events in the
\* ledger and its correct count the number of those marked correct.
C10_StatsFromLedger ==
    \A u \in UserIds :
        LET st == get_user_stats(answers, u)
        IN  /\ st.total = Cardinality(EventsOf(u))
            /\ st.correct = Cardinality(CorrectEventsOf(u))

\* two users hold different totals in one ledger
C10_Witness ==
    \E u, v \in UserIds :
        /\ get_user_stats(answers, u).total = 2
        /\ get_user_stats(answers, u).correct = 1
        /\ get_user_stats(answers, v).total = 1
        /\ calls = <<Call("get_user_stats", u, "ok")>>

(***************************************************************************)
(* Claims about the answer flow of the bot.                                *)
(***************************************************************************)
CallsTo(log, fn) == {i \in DOMAIN log : log[i].fn = fn}

\* C6: the streak transition runs once per recorded answer: a step runs
\* update_streak as many times as it appends AnswerEvents, so a message
\* that records no answer updates no streak.
C6_StreakOncePerAnswer ==
    [][Cardinality(CallsTo(calls', "update_streak")) = Len(answers') - Len(answers)]_vars

\* C7: when an answer is recorded, the streak update and the ledger append
\* come before the statistics are read: the statistics shown count the
\* answer just recorded and the streak shown is the stored, updated one.
C7_UpdatedBeforeRead ==
    \A u \in FlowUsers :
        (CallsTo(calls, "save_answer") # {} /\ calls[1].user = u) =>
            /\ \A i \in CallsTo(calls, "get_user_stats") \cup CallsTo(calls, "get_user_streak") :
                  \A j \in CallsTo(calls, "update_streak") \cup CallsTo(calls, "save_answer") :
                      j < i
            /\ CallsTo(calls, "get_user_stats") # {}
            /\ shown.user = u
            /\ shown.stats.kind = "stats"
            /\ shown.stats.total = Cardinality(EventsOf(u))
            /\ shown.stats.correct = Cardinality(CorrectEventsOf(u))
            /\ shown.days # 0 =>
                /\ shown.days = users[u].current_streak
                /\ shown.best = users[u].best_streak

\* the second answer was recorded on the second day of a streak
C7_Witness ==
    \E u \in FlowUsers :
        /\ CallsTo(calls, "save_answer") # {}
        /\ shown.user = u
        /\ shown.stats.total = 2
        /\ shown.days = 2

\* u's conversation waits for an answer to a question presented earlier
\* and no topic selection is pending, so a text that is no menu caption
\* reaches check_answer
AwaitingAnswer(u) ==
    /\ conv[u] = "WAITING_ANSWER"
    /\ ~user_sessions[u].selecting_topic
    /\ user_sessions[u].current_question.present

\* the ledger after handle_menu_choice has handled the text sent by u
LedgerAfter(u, text, ai_ok) ==
    handle_menu_choice(World, Update(u, text, 1, ai_ok)).answers

\* C8 as claimed: a submitted label outside A..E is appended to the ledger
\* as an AnswerEvent with correctness false.
C8_AnyLabelRecorded ==
    \A u \in FlowUsers :
        AwaitingAnswer(u) =>
            LET after == LedgerAfter(u, "F", TRUE)
            IN  /\ Len(after) = Len(answers) + 1
                /\ after[Len(after)].user_answer = "F"
                /\ ~after[Len(after)].is_correct

\* C8 amended: a text that is a label of A..E once upper-cased and stripped,
\* sent for a presented question, is appended with correctness (label =
\* correct label); a label outside A..E goes to the free-text handler and
\* nothing is appended.
C8_LabelsRecordedOthersDiverted ==
    \A u \in FlowUsers :
        AwaitingAnswer(u) =>
            /\ \A text \in {"A", "a"}, ai_ok \in BOOLEAN :
                  LedgerAfter(u, text, ai_ok) = Append(answers,
                    [telegram_id |-> u,
                     subject |-> user_sessions[u].subject,
                     question_id |-> user_sessions[u].current_question.id,
                     user_answer |-> "A",
                     correct_answer |-> user_sessions[u].current_question.correct,
                     is_correct |-> (user_sessions[u].current_question.correct = "A")])
            /\ LedgerAfter(u, "F", TRUE) = answers

\* a wrong label of A..E was recorded as incorrect
C8_Witness ==
    /\ CallsTo(calls, "save_answer") # {}
    /\ answers # <<>>
    /\ answers[Len(answers)].user_answer = "A"
    /\ answers[Len(answers)].correct_answer = "B"
    /\ ~answers[Len(answers)].is_correct

(***************************************************************************)
(* Claims about the statistics by subject.                                 *)
(***************************************************************************)
SubjectEventsOf(u, subject) == {i \in EventsOf(u) : answers[i].subject = subject}

\* C11: get_subject_stats(u) returns a mapping whose keys are exactly the
\* subjects of u's AnswerEvents (none for a user without events), each
\* entry holding that subject's correct count, total count and percentage.
C11_SubjectStats ==
    \A u \in UserIds :
        calls = <<Call("get_subject_stats", u, "ok")>> =>
            /\ result.op = "get_subject_stats"
            /\ {e.subject : e \in result.by_subject}
                    = {answers[i].subject : i \in EventsOf(u)}
            /\ \A e, f \in result.by_subject : e.subject = f.subject => e = f
            /\ \A e \in result.by_subject :
                    /\ e.total = Cardinality(SubjectEventsOf(u, e.subject))
                    /\ e.correct = Cardinality(SubjectEventsOf(u, e.subject)
                                                   \cap CorrectEventsOf(u))
                    /\ NearestTenth(e.percentage, e.correct, e.total)

\* a user with answers in two subjects, while another user has answered too
C11_Witness ==
    \E u \in UserIds :
        /\ calls = <<Call("get_subject_stats", u, "ok")>>
        /\ Cardinality(result.by_subject) = 2
        /\ \E i \in DOMAIN answers : answers[i].telegram_id # u

(***************************************************************************)
(* Claims about the leaderboard.                                           *)
(***************************************************************************)
PositionIn(board, u) ==
    IF \E i \in DOMAIN board : board[i].name = u
    THEN CHOOSE i \in DOMAIN board : board[i].name = u
    ELSE 0

\* users that have a users row and at least one answer
Eligible == {u \in DOMAIN users : users[u].present /\ EventsOf(u) # {}}

\* C12: get_leaderboard(n) returns at most n entries, and of two adjacent
\* entries the earlier has the greater accuracy, or the same accuracy and a
\* correct count that is not smaller.
C12_BoardOrdered ==
    result.op = "get_leaderboard" =>
        /\ Len(result.board) <= result.limit
        /\ \A i \in 1..(Len(result.board) - 1) :
              \/ result.board[i].accuracy > result.board[i + 1].accuracy
              \/ /\ result.board[i].accuracy = result.board[i + 1].accuracy
                 /\ result.board[i].correct >= result.board[i + 1].correct

\* three users are eligible, two are asked for, and the first is ahead of
\* the second by accuracy
C12_Witness ==
    /\ result.op = "get_leaderboard"
    /\ result.limit = 2
    /\ Cardinality(Eligible) = 3
    /\ Len(result.board) = 2
    /\ result.board[1].accuracy > result.board[2].accuracy

\* C13: a user with no AnswerEvents appears in no get_leaderboard(n), and
\* get_user_rank returns None for that user.
C13_NoEventsNotRanked ==
    \A u \in DOMAIN users :
        EventsOf(u) = {} =>
            /\ result.op = "get_leaderboard" => PositionIn(result.board, u) = 0
            /\ result.op = "get_user_rank" /\ result.user = u => result.rank = 0

\* a user with a users row and no answers is left out of a board that has
\* room for everyone
C13_Witness ==
    \E u \in DOMAIN users :
        /\ users[u].present
        /\ EventsOf(u) = {}
        /\ result.op = "get_leaderboard"
        /\ result.limit = 10
        /\ Len(result.board) = 2

CachedQuestions(subject) ==
    LET data == Content(subject, QUESTIONS[subject])
    IN  {data.questions[i] : i \in DOMAIN data.questions}

\* the record the question returned last was made from
SourceRecord ==
    CHOOSE q \in CachedQuestions(result.subject) : q.id = result.question.id

NoTopicFilter(topic) == topic \in {"None", ""}

\* C15: for a subject of the store whose loaded data has at least one
\* question, get_question returns None only when a topic filter is given
\* and no question has that topic; without a topic filter it returns a
\* question.
C15_NoneOnlyWhenFiltered ==
    (/\ result.op = "get_question"
     /\ result.subject \in SUBJECT_FILES
     /\ CachedQuestions(result.subject) # {}) =>
        /\ result.raised = ""
        /\ ~result.question.present =>
              /\ ~NoTopicFilter(result.topic)
              /\ \A q \in CachedQuestions(result.subject) : q.topic # result.topic
        /\ NoTopicFilter(result.topic) => result.question.present

\* C16: whenever get_question is called with a topic and returns a
\* question, the question's topic is the topic asked for.
C16_TopicAsAsked ==
    (/\ result.op = "get_question"
     /\ ~NoTopicFilter(result.topic)
     /\ result.question.present) =>
        result.question.topic = result.topic

\* a question of the topic asked for, from a document that has a question
\* of another topic too
C16_Witness ==
    /\ result.op = "get_question"
    /\ result.topic = "mechanics"
    /\ result.question.present
    /\ \E q \in CachedQuestions(result.subject) : q.topic = "optics"

\* the record lacks the question or the explanation in the language asked for
LacksText(q, language) ==
    q.question[language] = AbsentText \/ q.explanation[language] = AbsentText

\* C17 as claimed: for a record without the question or explanation text
\* of the language asked for, the text and the explanation returned are
\* the record's English variants.
C17_EnglishReturned ==
    (/\ result.op = "get_question"
     /\ result.question.present
     /\ LacksText(SourceRecord, result.language)) =>
        /\ SourceRecord.question["en"] # AbsentText
        /\ result.question.text = SourceRecord.question["en"]
        /\ SourceRecord.explanation["en"] # AbsentText
        /\ result.question.explanation = SourceRecord.explanation["en"]

\* the variant get_question is to return for one field
Fallback(variants, language) ==
    IF variants[language] # AbsentText THEN variants[language]
    ELSE IF variants["en"] # AbsentText THEN variants["en"]
    ELSE BlankText

\* C17 amended: the question text and the explanation are each, on its
\* own, the variant of the language asked for when the record has it, else
\* the English variant when the record has it, else the empty string; a
\* document whose records lack only texts or options never makes
\* get_question raise.
C17_FallbackPerField ==
    result.op = "get_question" =>
        /\ QUESTIONS[result.subject] = "sparse" => result.raised = ""
        /\ result.question.present =>
              /\ result.question.text
                    = Fallback(SourceRecord.question, result.language)
              /\ result.question.explanation
                    = Fallback(SourceRecord.explanation, result.language)

\* Kazakh asked for of a record that has the question in Russian only and
\* the explanation in every language: an empty text, the Kazakh explanation
C17_Witness ==
    /\ result.op = "get_question"
    /\ result.language = "kk"
    /\ result.question.present
    /\ SourceRecord.question["kk"] = AbsentText
    /\ SourceRecord.question["en"] = AbsentText
    /\ result.question.text = BlankText
    /\ result.question.explanation = SourceRecord.explanation["kk"]

\* C18: once a subject is in the cache, no later get_question or get_topics
\* call reads its source again or changes its entry.
C18_LoadedOnce ==
    [][\A subject \in SubjectNames :
        QUESTIONS[subject] # "not_cached" =>
            /\ QUESTIONS'[subject] = QUESTIONS[subject]
            /\ \A i \in DOMAIN calls' :
                  ~(calls'[i].fn = "load_questions_from_file"
                        /\ calls'[i].path = subject)]_vars

\* a question is served from the cached document after the file on disk
\* was replaced by another
C18_Witness ==
    /\ result.op = "get_question"
    /\ result.subject = "physics"
    /\ result.question.present
    /\ QUESTIONS["physics"] = "json"
    /\ files["physics"] = "sparse"
    /\ calls = <<>>

\* C19: a missing or malformed source of a subject makes get_question and
\* get_topics return None and [] for it without raising, and the other
\* subjects are served as before.
C19_BadSourceIsNone ==
    /\ (/\ result.op \in {"get_question", "get_topics"}
         /\ result.subject \in SUBJECT_FILES
         /\ QUESTIONS[result.subject] \in {"None", "array"}) =>
            /\ result.raised = ""
            /\ ~result.question.present
            /\ result.topics = <<>>
    /\ (/\ result.op = "get_question"
         /\ QUESTIONS[result.subject] = "json"
         /\ NoTopicFilter(result.topic)) =>
            result.question.present

\* the record has the question and the explanation in the three languages
\* and the five options
Complete(q) ==
    /\ \A l \in Languages : q.question[l] # AbsentText /\ q.explanation[l] # AbsentText
    /\ \A l \in Labels : q.options[l] # AbsentText

\* C20: a record without one of the three language variants of the
\* question or the explanation, or without one of the five options, is
\* rejected on loading and never returned by get_question.
C20_IncompleteRejected ==
    /\ \A subject \in SUBJECT_FILES : \A q \in CachedQuestions(subject) : Complete(q)
    /\ (result.op = "get_question" /\ result.question.present) =>
            /\ Complete(SourceRecord)
            /\ \A l \in Labels : result.question.options[l] # AbsentText

(***************************************************************************)
(* Claims about failures, scheduling and the invariants of the stored data. *)
(***************************************************************************)
\* C21: when the explanation service fails while an answer is recorded, the
\* AnswerEvent has been appended before the call and is in the ledger, the
\* caller gets the fixed placeholder text, and the handler goes on to read
\* and show the statistics, which count that event, and ends normally.
C21_ServiceFailureDegrades ==
    \A i \in CallsTo(calls, "explain_answer") :
        calls[i].path # "ok" =>
            LET u == calls[i].user
            IN  /\ calls[i].path = "unavailable"
                /\ \E j \in CallsTo(calls, "save_answer") : j < i /\ calls[j].user = u
                /\ answers # <<>>
                /\ answers[Len(answers)].telegram_id = u
                /\ \E k \in CallsTo(calls, "get_user_stats") : k > i
                /\ shown.user = u
                /\ shown.stats.kind # "none"
                /\ shown.stats.total = Cardinality(EventsOf(u))
                /\ conv[u] = "WAITING_ANSWER"

C21_Witness ==
    \E i \in CallsTo(calls, "explain_answer") :
        /\ calls[i].path = "unavailable"
        /\ Len(answers) = 2
        /\ shown.stats.total = 2

\* the statements of check_answer that record the answer: the streak
\* update and the ledger append
Recording(t) == SelectStreak(t) \/ UpdateStreak(t) \/ InsertAnswer(t)

\* C22: while one user's explanation call is pending, the next statement of
\* another user's answer recording (streak update, ledger append) can be
\* executed: the recording does not wait for the call to return.
C22_RecordingNotBlocked ==
    \A t \in TaskIds, o \in TaskIds :
        (/\ tasks[t].pc = "explaining"
         /\ tasks[o].fn = "check_answer"
         /\ tasks[o].user # tasks[t].user
         /\ tasks[o].pc \in {"queued", "selected", "updated"}) =>
            ENABLED Recording(o)

\* the row of user u after update_streak ran to its end at date first and
\* then at date second, on the row the user had when the updates arrived
SerialStreak(u, row, first, second) ==
    LET before == [users EXCEPT ![u] = row]
        once == update_streak(before, u, first).users
    IN  update_streak(once, u, second).users[u]

\* both handlers are check_answer for the same user and have ended
BothRecorded(t, o) ==
    /\ t # o
    /\ tasks[t].fn = "check_answer" /\ tasks[o].fn = "check_answer"
    /\ tasks[t].user = tasks[o].user
    /\ tasks[t].pc = "done" /\ tasks[o].pc = "done"

BothDrew(t, o, subject) ==
    /\ t # o
    /\ tasks[t].fn = "start_practice" /\ tasks[o].fn = "start_practice"
    /\ tasks[t].user # tasks[o].user
    /\ TaskSubject(t) = subject /\ TaskSubject(o) = subject
    /\ tasks[t].pc = "done" /\ tasks[o].pc = "done"

C25_LedgerAppendOnly ==
    [][\/ answers' = answers
       \/ /\ Len(answers') = Len(answers) + 1
          /\ SubSeq(answers', 1, Len(answers)) = answers]_vars

\* two events were appended, a correct and a wrong one, and the user went
\* on to change the subject
C25_Witness ==
    /\ Len(answers) = 2
    /\ answers[1].is_correct /\ ~answers[2].is_correct
    /\ conv[1] = "CHOOSING_SUBJECT"

\* C26: an event, when it is appended, stores the answer key of the
\* question the session holds as served to the user, which is the key the
\* loaded bank has for that question, and is_correct is whether the
\* submitted label equals the stored key; no later step (another question
\* served, the source file edited, the process restarted) changes a stored
\* event.
C26_KeyAsServed ==
    [][/\ SubSeq(answers', 1, Len(answers)) = answers
       /\ \A i \in DOMAIN answers' :
            answers'[i].is_correct = (answers'[i].user_answer = answers'[i].correct_answer)
       /\ Len(answers') > Len(answers) =>
            LET e == answers'[Len(answers')]
                question == user_sessions[e.telegram_id].current_question
            IN  /\ Len(answers') = Len(answers) + 1
                /\ question.present
                /\ e.question_id = question.id
                /\ e.correct_answer = question.correct
                /\ \E q \in CachedQuestions(e.subject) :
                        q.id = e.question_id /\ q.correct = e.correct_answer]_vars

\* the same question was answered 'A' before and after its key was
\* corrected in the file and the bot restarted: the first event keeps the
\* old key and its grade
C26_Witness ==
    /\ Len(answers) = 2
    /\ answers[1].question_id = 1 /\ answers[2].question_id = 1
    /\ answers[1].correct_answer = "A" /\ answers[1].is_correct
    /\ answers[2].correct_answer = "C" /\ ~answers[2].is_correct
    /\ files["physics"] = "json"

\* the step changes something of user v: the row, the events, the
\* statistics, the streak read for display, the session or the conversation
Touched(v) ==
    \/ users'[v] # users[v]
    \/ SelectSeq(answers', LAMBDA e : e.telegram_id = v)
          # SelectSeq(answers, LAMBDA e : e.telegram_id = v)
    \/ get_user_stats(answers', v) # get_user_stats(answers, v)
    \/ get_subject_stats(answers', v) # get_subject_stats(answers, v)
    \/ get_user_streak(users', v) # get_user_streak(users, v)
    \/ user_sessions'[v] # user_sessions[v]
    \/ conv'[v] # conv[v]

\* C27: users are independent: a step that changes something of one user,
\* or calls the database for one user, leaves every other user's row,
\* events, statistics and session entry as they were.
C27_OtherUsersUntouched ==
    [][\A v \in UserIds :
          (Touched(v) \/ \E i \in DOMAIN calls' : calls'[i].user = v) =>
              \A o \in UserIds \ {v} :
                  /\ ~Touched(o)
                  /\ \A i \in DOMAIN calls' : calls'[i].user # o]_vars

\* both users have chosen a language, practised and answered, and the
\* second has read the statistics
C27_Witness ==
    /\ users[1].language = "ru" /\ users[2].language = "kk"
    /\ EventsOf(1) # {} /\ EventsOf(2) # {}
    /\ users[1].current_streak = 1 /\ users[2].current_streak = 1
    /\ shown.user = 2 /\ shown.stats.total = 1
    /\ user_sessions[1].current_question.present
    /\ user_sessions[2].current_question.present

\* C28: a user's row appears with the column defaults in the /start step
\* that finds none, a /start of a user who has a row leaves the row
\* (language, streaks, date) as it is, and no step removes a row.
C28_RowKept ==
    [][\A u \in UserIds :
          /\ users[u].present => users'[u].present
          /\ (~users[u].present /\ users'[u].present) =>
                /\ users'[u] = DefaultRow
                /\ conv'[u] = "CHOOSING_LANGUAGE"
          /\ (/\ users[u].present
              /\ conv[u] # "CHOOSING_LANGUAGE"
              /\ conv'[u] = "CHOOSING_LANGUAGE") =>
                users'[u] = users[u]]_vars

\* /start was sent again by a user who had chosen Russian and has a streak
C28_Witness ==
    /\ users[1].language = "ru"
    /\ users[1].current_streak = 1
    /\ users[1].last_practice_date = strftime(0)
    /\ Len(answers) = 1
    /\ conv[1] = "CHOOSING_LANGUAGE"

\* the questions a call of get_question can return in the current state
Drawable(subject, language, topic) ==
    {get_question(QUESTIONS, files, subject, language, topic, pick).question :
        pick \in Picks}

\* C29: the selection keeps no memory of earlier draws: after get_question
\* returned a question, the same call can return that question again, and
\* what it can return is every question of the loaded data that passes the
\* topic filter, whatever was drawn before.
C29_DrawHasNoMemory ==
    (/\ result.op = "get_question"
     /\ result.question.present) =>
        /\ result.question \in Drawable(result.subject, result.language, result.topic)
        /\ \A q \in CachedQuestions(result.subject) :
              (/\ q.id # AbsentId /\ q.topic # AbsentKey
               /\ NoTopicFilter(result.topic) \/ q.topic = result.topic) =>
                    Rendered(q, result.language)
                        \in Drawable(result.subject, result.language, result.topic)

\* a question was drawn where two could be: the one returned is not forced
C29_Witness ==
    /\ result.op = "get_question"
    /\ result.question.present
    /\ NoTopicFilter(result.topic)
    /\ Cardinality(Drawable(result.subject, result.language, result.topic)) = 2

\* C30: in every state of a database the bot created, every user's
\* current streak is between 0 and the best streak, and it is at least 1
\* when the last practice date is set.
C30_StreakBounds ==
    \A u \in UserIds :
        /\ 0 <= users[u].current_streak
        /\ users[u].current_streak <= users[u].best_streak
        /\ users[u].last_practice_date # NULL => users[u].current_streak >= 1

\* one user's streak was reset below the best, another has the default row
C30_Witness ==
    \E u \in UserIds, v \in UserIds :
        /\ users[u].current_streak = 1 /\ users[u].best_streak = 3
        /\ users[u].last_practice_date = strftime(today)
        /\ users[v] = DefaultRow

(***************************************************************************)
(* Claims about the streak over the days, the flow of questions and        *)
(* subjects, and the agreement of the parts.                               *)
(***************************************************************************)
\* C31: on a database the bot created and under a clock that never goes
\* back, a user's current streak is at most the number of distinct dates
\* at which update_streak ran for the user, and the streak grows only by 1
\* and only in a call that moves the last practice date to today from
\* another date, so at most once per calendar day.
C31_StreakWithinDays ==
    [][\A u \in UserIds :
          /\ users'[u].current_streak <= Cardinality(streak_days'[u])
          /\ users'[u].current_streak > users[u].current_streak =>
                /\ users'[u].current_streak = users[u].current_streak + 1
                /\ users[u].last_practice_date # strftime(today)
                /\ users'[u].last_practice_date = strftime(today)
                /\ today \in streak_days'[u]]_vars

\* a streak of three days after calls on three dates, several on the last
C31_Witness ==
    \E u \in UserIds :
        /\ users[u].current_streak = 3
        /\ Cardinality(streak_days[u]) = 3
        /\ Len(calls) = 1 /\ calls[1].path = "same_day" /\ calls[1].user = u

\* C32: a presented question gives at most one event: when the last step
\* recorded a user's answer to the session's current question, the next
\* step, which presents no question before it grades, appends no event of
\* that user.
C32_OneEventPerQuestion ==
    [][\A u \in UserIds :
          (\E i \in CallsTo(calls, "save_answer") : calls[i].user = u) =>
              ~(/\ Len(answers') > Len(answers)
                /\ answers'[Len(answers')].telegram_id = u)]_vars

\* the subject whose source file the question was made from
DrawnFrom(question) == question.text[2]

\* C33: an event's subject is the subject its question was drawn from: a
\* step that appends an event stores the subject of the file the session's
\* current question came from.
C33_SubjectOfQuestion ==
    [][Len(answers') > Len(answers) =>
          LET e == answers'[Len(answers')]
              question == user_sessions[e.telegram_id].current_question
          IN  /\ question.present
              /\ Len(question.text) = 4
              /\ e.subject = DrawnFrom(question)]_vars

\* C34: when a step gives a user's session another subject, the session's
\* topic filter is none after the step, so that the next question is drawn
\* from the new subject without a topic of the previous one.
C34_TopicClearedWithSubject ==
    [][\A u \in UserIds :
          (/\ user_sessions'[u].subject # user_sessions[u].subject
           /\ user_sessions'[u].subject \notin {"Absent", "None"}) =>
              user_sessions'[u].topic = "None"]_vars

\* C35: the selecting_topic flag lasts until the user's next message is
\* handled: a step that moves the conversation of a user whose flag is set,
\* or changes the user's session, leaves the flag cleared, also when the
\* message is /start.
C35_SelectingTopicCleared ==
    [][\A u \in UserIds :
          (/\ user_sessions[u].selecting_topic
           /\ conv'[u] # conv[u] \/ user_sessions'[u] # user_sessions[u]) =>
              ~user_sessions'[u].selecting_topic]_vars

\* C36: every subject code a user can select is a subject the question
\* store knows: the subject of a session is a key of SUBJECT_FILES, and
\* once its source has been read the cache holds a document for it unless
\* the file cannot be read.
C36_SelectableSubjectsKnown ==
    \A u \in UserIds :
        LET subject == user_sessions[u].subject
        IN  subject \notin {"Absent", "None"} =>
                /\ subject \in SUBJECT_FILES
                /\ QUESTIONS[subject] = "None" =>
                      files[subject] \in {"missing", "malformed"}

(***************************************************************************)
(* The two accuracy computations on one ledger: get_user_stats rounds in   *)
(* Python, get_leaderboard rounds in SQLite.  The ledger of one user is    *)
(* drawn with every number of events up to AccuracyMaxTotal and every      *)
(* number of correct ones, and both functions read it.                     *)
(***************************************************************************)
AccuracyMaxTotal == 16

\* the ledger after `total` answers of the user, `correct` of them right
LedgerOf(u, correct, total) ==
    [i \in 1..total |->
        [telegram_id |-> u, subject |-> "physics", question_id |-> 1,
         user_answer |-> IF i <= correct THEN "A" ELSE "B",
         correct_answer |-> "A", is_correct |-> i <= correct]]

InitAccuracy ==
    /\ today = 0
    /\ users \in {add_user([v \in UserIds |-> NoRow], u) : u \in UserIds}
    /\ answers \in {LedgerOf(u, pair[1], pair[2]) :
                      u \in {v \in UserIds : users[v].present},
                      pair \in {p \in (0..AccuracyMaxTotal) \X (1..AccuracyMaxTotal) :
                                    p[1] <= p[2]}}
    /\ calls = <<>>
    /\ shown = NoShown
    /\ result = NoResult
    /\ InitBot

NextAccuracy ==
    \/ \E u \in UserIds : DbGetUserStats(u)
    \/ \E limit \in Limits : DbGetLeaderboard(limit)

SpecAccuracy == InitAccuracy /\ [][NextAccuracy]_vars

\* C37: for every user with at least one event, the accuracy of the user's
\* leaderboard entry equals the percentage get_user_stats returns for the
\* same ledger, for every pair (correct, total), ties between two
\* one-decimal values included.
C37_AccuracyAgrees ==
    \A u \in UserIds :
        LET stats == get_user_stats(answers, u)
            board == get_leaderboard(users, answers, Cardinality(UserIds))
        IN  stats.kind = "stats" =>
                \A i \in DOMAIN board :
                    board[i].name = u => board[i].accuracy = stats.percentage

\* C38: for every graded submission the branch explain_answer takes on the
\* option texts check_answer passes to it agrees with the is_correct of the
\* AnswerEvent, also when two options of the question have the same text
\* up to case and surrounding whitespace.
C38_BranchAgreesWithEvent ==
    [][Len(answers') > Len(answers) =>
          LET e == answers'[Len(answers')]
              question == user_sessions[e.telegram_id].current_question
          IN  (explain_answer(question.options[e.correct_answer],
                              question.options[e.user_answer]) = "praise")
                  <=> e.is_correct]_vars

\* C39: a failed first load is cached like a successful one: while the
\* cache holds None for a subject, the entry stays None, and a get_question
\* or get_topics call for the subject reads no source file and returns
\* None or the empty list without raising, whatever the file has become.
C39_FailedLoadCached ==
    [][\A subject \in SubjectNames :
          QUESTIONS[subject] = "None" =>
              /\ QUESTIONS'[subject] = "None"
              /\ (result'.op \in {"get_question", "get_topics"}
                      /\ result'.subject = subject) =>
                    /\ calls' = <<>>
                    /\ ~result'.question.present
                    /\ result'.topics = <<>>
                    /\ result'.raised = ""]_vars

\* physics was first asked for while its file was missing; the file is
\* there now, and a question asked for is answered with None from the cache
C39_Witness ==
    /\ result.op = "get_question"
    /\ result.subject = "physics"
    /\ QUESTIONS["physics"] = "None"
    /\ files["physics"] = "json"
    /\ calls = <<>>
    /\ ~result.question.present

\* C40: in every reachable state of the bot flow the user of every
\* AnswerEvent has a users row, appears in the full ranking, and has a
\* position from get_user_rank.
C40_EventUsersRanked ==
    \A i \in DOMAIN answers :
        LET u == answers[i].telegram_id
            board == get_leaderboard(users, answers, Cardinality(UserIds))
        IN  /\ users[u].present
            /\ \E j \in DOMAIN board : board[j].name = u
            /\ get_user_rank(users, answers, u) # 0

\* both users have answered; one is ranked first and the other second
C40_Witness ==
    /\ \A u \in UserIds : \E i \in DOMAIN answers : answers[i].telegram_id = u
    /\ {get_user_rank(users, answers, u) : u \in UserIds} = {1, 2}

=============================================================================
